---------------------------- MODULE Spec2Model ----------------------------
(***************************************************************************)
(* Model of the cockpit task manager's telemetry engine:                   *)
(*   src/src/system-stats-service.ts  fetchSystemStats, fetchGpuStats,     *)
(*                                    addHistoryPoint, the prev* stores    *)
(*                                    and the histories                    *)
(*   src/src/types.ts                 fetchProcesses, prevIoStats          *)
(*   src/unnamed/part_000             TaskManager.refresh and its triggers *)
(*   src/unnamed/part_001             ProcessTable's post-signal refresh   *)
(*                                                                         *)
(* A rate is a JavaScript number; it is modelled as an exact fraction      *)
(* [num, den] in lowest terms (floating-point rounding is not modelled).   *)
(* A HistoryPoint is {timestamp, value}; the model keeps the value and,    *)
(* instead of the wall-clock timestamp, the number of the call that        *)
(* appended the point (field "pass"), which is what the timestamp is used  *)
(* to tell apart.                                                          *)
(***************************************************************************)
EXTENDS Integers, Sequences, FiniteSets, TLC

\* ------------------------------------------------------------------ bounds
\* Calls of fetchSystemStats and fetchProcesses explored from page load.
MaxPasses == 3

\* --------------------------------------------------------- program constants
MAX_HISTORY_POINTS == 60
SECTOR_BYTES == 512
KB == 1024
MS_PER_S == 1000

\* ------------------------------------------------------------ environment
Disks == {"sda", "sdb"}
Ifaces == {"eth0"}
Pids == {1}
\* Date.now() against the value it returned to the previous call: the wall
\* clock normally advances (Tick), and may stand still or be set back.
Tick == 1
ClockAnomalies == {-1, 0}

NULL == [null |-> TRUE]
\* The values a cumulative kernel counter is read at (in sectors, or in KiB).
Counters == {1, 2}
TopCounter == CHOOSE c \in Counters : \A d \in Counters : d <= c
\* Date.now() when the page loads, in ms (any value large enough to be set back from).
StartTime == 100

\* One qualifying /proc/diskstats row: sectors read (parts[5]) and written (parts[9]).
DiskRows == {[read |-> c, write |-> 2 * c] : c \in Counters}
\* One non-loopback /proc/net/dev row: bytes received (parts[1]) and sent (parts[9]).
IfaceRows == {[recv |-> c * KB, sent |-> 2 * c * KB] : c \in Counters}
\* One /proc/[pid]/io pair.
IoRows == {[readBytes |-> c * KB, writeBytes |-> 2 * c * KB] : c \in Counters}

DiskContents == UNION {[S -> DiskRows] : S \in SUBSET Disks}
NetContents == UNION {[S -> IfaceRows] : S \in SUBSET Ifaces}
IoContents == UNION {[S -> IoRows] : S \in SUBSET Pids}

\* Parsed cpu lines of /proc/stat: user nice system idle iowait irq softirq steal.
CpuLineA == <<100, 0, 50, 800, 50, 0, 0, 0>>
CpuLineB == <<120, 0, 60, 820, 60, 0, 0, 0>>
CpuLines == {CpuLineA, CpuLineB}
\* /proc/stat: the aggregate line and the per-core lines.
DefaultStat == [total |-> CpuLineA, cores |-> <<CpuLineA>>]
StatContents ==
  {[total |-> t, cores |-> c] : t \in CpuLines, c \in {<<CpuLineB>>, <<CpuLineA, CpuLineB>>}}

\* /proc/meminfo, in kB.
DefaultMem == [MemTotal |-> 8, MemFree |-> 2, Cached |-> 1, Buffers |-> 1,
               SReclaimable |-> 0, SwapTotal |-> 4, SwapFree |-> 3]
MemContents == {[DefaultMem EXCEPT !.MemFree = 4]}

DefaultDisk == [d \in {"sda"} |-> [read |-> 1, write |-> 2]]
DefaultNet == [i \in {"eth0"} |-> [recv |-> KB, sent |-> 2 * KB]]

\* What the six reads of one fetchSystemStats call resolve to: each family's
\* content, and the reads that reject (Promise.all rejects as soon as one
\* does; the contents the other reads resolved to are then dropped).
\* The inputs vary one family at a time around a default content.
Reads == {"/proc/stat", "/proc/meminfo", "/proc/uptime", "/proc/loadavg",
          "/proc/diskstats", "/proc/net/dev"}
SysInput(s, m, d, n, t) ==
  [failed |-> FALSE, rejected |-> {}, stat |-> s, mem |-> m, disk |-> d, net |-> n, now |-> t]
\* One read rejects, the other five resolve.
FailedInput(t) ==
  [failed |-> TRUE, rejected |-> {"/proc/net/dev"}, stat |-> DefaultStat, mem |-> DefaultMem,
   disk |-> DefaultDisk, net |-> NULL, now |-> t]
\* The contents read while the clock does not advance: every entity at its
\* highest counter.
TopDisk == [d \in Disks |-> [read |-> TopCounter, write |-> 2 * TopCounter]]
TopIo == [p \in Pids |-> [readBytes |-> TopCounter * KB, writeBytes |-> 2 * TopCounter * KB]]
SysInputs(t) ==
  {FailedInput(t)}
  \cup {SysInput(DefaultStat, DefaultMem, d, DefaultNet, t + Tick) : d \in DiskContents}
  \cup {SysInput(DefaultStat, DefaultMem, TopDisk, DefaultNet, t + k) : k \in ClockAnomalies}
  \cup {SysInput(DefaultStat, DefaultMem, DefaultDisk, n, t + Tick) : n \in NetContents}
  \cup {SysInput(s, DefaultMem, DefaultDisk, DefaultNet, t + Tick) : s \in StatContents}
  \cup {SysInput(DefaultStat, m, DefaultDisk, DefaultNet, t + Tick) : m \in MemContents}

\* What the ps command and the /proc/[pid]/io batch read of one fetchProcesses
\* call resolve to; fetchProcessIo never rejects (it resolves to {} instead).
ProcInput(l, i, t) == [failed |-> FALSE, ps |-> l, io |-> i, now |-> t]
ProcInputs(t) ==
  {[failed |-> TRUE, ps |-> {}, io |-> [x \in {} |-> NULL], now |-> t]}
  \cup {ProcInput(DOMAIN i, i, t + Tick) : i \in IoContents}
  \cup {ProcInput(Pids, [x \in {} |-> NULL], t + Tick)}
  \cup {ProcInput(Pids, TopIo, t + k) : k \in ClockAnomalies}

\* Detected GPU devices, and the lists detectGpus can resolve to.
Nvidia0 == [index |-> 0, vendor |-> "nvidia"]
Amd0 == [index |-> 0, vendor |-> "amd"]
DetectedGpuLists == {<<>>, <<Nvidia0>>, <<Amd0>>}
\* What the queries of one fetchGpuStats call resolve to: the nvidia-smi rows
\* (NULL when the command rejects) and the sysfs files of each card (each
\* [v |-> number], or NULL for a file that cannot be read). A text that is a
\* number is [num |-> n], any other text is [text |-> its characters].
NotAvailable == [text |-> "[N/A]"]
NvidiaRow(i, u) ==
  [idx |-> i, gpuUsage |-> u, memoryUsage |-> 2 * u, fields |-> 7,
   temp |-> [num |-> 60], power |-> NotAvailable]
SysfsFiles(b) ==
  [busy |-> b, vramTotal |-> [v |-> 4], vramUsed |-> [v |-> 1], temp |-> [num |-> 45000]]
GpuInput(nv, b) == [nvidia |-> nv, sysfs |-> [i \in {0} |-> SysfsFiles(b)]]
GpuInputs ==
  {GpuInput(NULL, NULL), GpuInput([v |-> <<NvidiaRow(0, 10)>>], [v |-> 30])}

VARIABLES
  prevCpuTimes,       \* [v |-> parsed aggregate cpu line of the last pass], or NULL
  prevPerCoreTimes,   \* [v |-> parsed per-core lines of the last pass], or NULL
  prevNetStats,       \* aggregate network totals of the last pass, or NULL
  prevPerIfaceStats,  \* interface -> {sent, recv, timestamp}
  prevDiskStats,      \* aggregate disk totals of the last pass, or NULL
  prevPerDiskStats,   \* device -> {read, write, timestamp}
  history,            \* the six global streams
  perDiskHistories,   \* device -> {read, write} streams
  perIfaceHistories,  \* interface -> {sent, recv} streams
  perCoreHistories,   \* core position -> stream
  prevIoStats,        \* pid -> {read, write, timestamp}
  stats,              \* the SystemStats the last fetchSystemStats call returned
  processes,          \* the list the last fetchProcesses call returned
  passNo,             \* number of fetchSystemStats calls completed
  procNo,             \* number of fetchProcesses calls completed
  gpuHistories,       \* GPU index -> {usage, memory} streams
  gpuStats,           \* the list the last fetchGpuStats call returned
  gpuNo,              \* number of fetchGpuStats calls that sampled a non-empty list
  mounted,            \* TaskManager: the component is mounted and its effects have run
  unmounted,          \* TaskManager: the component was unmounted, its cleanups have run
  autoRefresh,        \* TaskManager: the autoRefresh state
  intervals,          \* TaskManager: intervalRef.current ([v |-> id] or NULL), the ids of
                      \* the live setInterval(refresh, UPDATE_INTERVAL) timers, ids handed out
  hardware,           \* TaskManager: [loaded, gpus] - the hardware state's gpus list
  calls,              \* TaskManager: the refresh calls started, in order
  signalTimers,       \* ProcessTable: pending setTimeout(onRefresh, 500) timers
  table,              \* ProcessTable: selectedPid, killModalOpen, actionError and the
                      \* killProcess calls of handleKill that have not settled
  shown,              \* TaskManager: what the setters of refresh last wrote
  error,              \* TaskManager: the error state (the alert), or NULL
  held,               \* a caller of the accessors: the values they returned to it, or NULL
  writes,             \* that caller: how many times it has mutated a returned value
  clock,              \* what Date.now() returned last
  last,               \* which call completed last, and what its reads resolved to
  pre,                \* the stores as that call found them
  reports,            \* per completed fetchSystemStats call: the entities its reads reported
  appended,           \* per stream: every point ever handed to addHistoryPoint, in order
  obtained            \* the contents of the streams of held when the accessors returned

engine == <<prevCpuTimes, prevPerCoreTimes, prevNetStats, prevPerIfaceStats,
            prevDiskStats, prevPerDiskStats, history, perDiskHistories,
            perIfaceHistories, perCoreHistories>>
gpu == <<gpuHistories, gpuStats, gpuNo>>
ui == <<mounted, unmounted, autoRefresh, intervals, hardware, calls, signalTimers, table, shown, error>>
caller == <<held, writes>>
ghost == <<last, pre, reports, appended, obtained>>
vars == <<engine, prevIoStats, stats, processes, passNo, procNo, gpu, ui, caller, clock, ghost>>

\* ------------------------------------------------------------- arithmetic
Max(a, b) == IF a >= b THEN a ELSE b
Min(a, b) == IF a <= b THEN a ELSE b

RECURSIVE GCD(_, _)
GCD(a, b) == IF b = 0 THEN a ELSE GCD(b, a % b)

\* The fraction n/d (d > 0) in lowest terms.
Rat(n, d) ==
  LET a == IF n < 0 THEN -n ELSE n
      g == GCD(a, d)
  IN [num |-> n \div g, den |-> d \div g]

Zero == [num |-> 0, den |-> 1]
RatNonNeg(r) == r.num >= 0 /\ r.den > 0

\* The rate without the clamp at 0.
RateUnclamped(cur, prev, dtMs) == Rat((cur - prev) * MS_PER_S, KB * dtMs)
\* Math.max(0, (cur - prev) / 1024 / dt) with dt = dtMs / 1000 seconds, dtMs > 0.
Rate(cur, prev, dtMs) == Rat(Max(0, (cur - prev) * MS_PER_S), KB * dtMs)

\* ---------------------------------------------------------------- history
\* The eviction test off by one: a point is dropped already at capacity.
addHistoryPointEarlyShift(arr, value, n) ==
  LET pushed == Append(arr, [value |-> value, pass |-> n])
  IN IF Len(pushed) >= MAX_HISTORY_POINTS THEN Tail(pushed) ELSE pushed
\* addHistoryPoint(arr, value): push, then drop the oldest point when over capacity.
addHistoryPoint(arr, value, n) ==
  LET pushed == Append(arr, [value |-> value, pass |-> n])
  IN IF Len(pushed) > MAX_HISTORY_POINTS THEN Tail(pushed) ELSE pushed

\* The bookkeeping counterpart of addHistoryPoint: push and keep everything.
LogPoint(arr, value, n) == Append(arr, [value |-> value, pass |-> n])

\* The append of a stream (addHistoryPoint), or of its log when keepAll.
Push(keepAll, arr, value, n) ==
  IF keepAll THEN LogPoint(arr, value, n) ELSE addHistoryPoint(arr, value, n)

EmptyMap == [x \in {} |-> NULL]

RECURSIVE SumOver(_, _)
SumOver(f, S) ==
  IF S = {} THEN 0
  ELSE LET x == CHOOSE y \in S : TRUE IN f[x] + SumOver(f, S \ {x})

RECURSIVE SumSeq(_)
SumSeq(s) == IF s = <<>> THEN 0 ELSE Head(s) + SumSeq(Tail(s))

\* ------------------------------------------------------------------- CPU
IdleTicksWithoutIowait(cpu) == cpu[4]
\* cpu[3] + (cpu[4] || 0): idle plus iowait ticks of a parsed cpu line.
IdleTicks(cpu) == cpu[4] + (IF Len(cpu) >= 5 THEN cpu[5] ELSE 0)

\* total > 0 ? Math.max(0, Math.min(100, ((total - idle) / total) * 100)) : 0
CpuPercent(cur, prev) ==
  LET total == SumSeq(cur) - SumSeq(prev)
      idle == IdleTicks(cur) - IdleTicks(prev)
      busy == (total - idle) * 100
  IN IF total > 0
     THEN IF busy < 0 THEN Zero
          ELSE IF busy > 100 * total THEN [num |-> 100, den |-> 1]
          ELSE Rat(busy, total)
     ELSE Zero

\* stats.cpuUsage: 0 unless a previous aggregate line is stored.
CpuUsage(cpuTotal) ==
  IF prevCpuTimes # NULL THEN CpuPercent(cpuTotal, prevCpuTimes.v) ELSE Zero

\* stats.cpuCores = coreLines.length || 1
CpuCores(coreLines) == IF Len(coreLines) = 0 THEN 1 ELSE Len(coreLines)

\* Per-core usage with the cores present in both passes matched by position
\* when the count changed.
CpuPerCorePartialMatch(coreLines) ==
  [i \in 1..Len(coreLines) |->
     IF prevPerCoreTimes # NULL /\ i <= Len(prevPerCoreTimes.v)
     THEN CpuPercent(coreLines[i], prevPerCoreTimes.v[i]) ELSE Zero]
\* stats.cpuPerCore: per-core usage against the same core of the previous
\* pass when the core count is unchanged, else cpuCores zeros.
CpuPerCore(coreLines) ==
  IF prevPerCoreTimes # NULL /\ Len(prevPerCoreTimes.v) = Len(coreLines)
  THEN [i \in 1..Len(coreLines) |-> CpuPercent(coreLines[i], prevPerCoreTimes.v[i])]
  ELSE [i \in 1..CpuCores(coreLines) |-> Zero]

\* stats.cpuPerCore.forEach((usage, i) => addHistoryPoint(perCoreHistories[i], usage))
PerCoreAppend(keepAll, hists, cpuPerCore, n) ==
  [i \in DOMAIN hists \cup DOMAIN cpuPerCore |->
     IF i \in DOMAIN cpuPerCore
     THEN Push(keepAll, IF i \in DOMAIN hists THEN hists[i] ELSE <<>>, cpuPerCore[i], n)
     ELSE hists[i]]
NewPerCoreHistories(cpuPerCore, n) ==
  PerCoreAppend(FALSE, perCoreHistories, cpuPerCore, n)

\* ---------------------------------------------------------------- memory
\* memoryCached = Cached + Buffers + SReclaimable; memoryUsed = total - free - cached.
MemoryCached(m) == m.Cached + m.Buffers + m.SReclaimable
MemoryUsed(m) == m.MemTotal - m.MemFree - MemoryCached(m)

\* The value appended to history.memory:
\* stats.memoryTotal > 0 ? (stats.memoryUsed / stats.memoryTotal) * 100 : 0
MemoryPercent(st) ==
  IF st.memoryTotal > 0 THEN Rat(st.memoryUsed * 100, st.memoryTotal) ELSE Zero

\* ------------------------------------------------------------------ disks
\* The totals of the first row alone.
DiskTotalsOfOneRow(content) ==
  IF DOMAIN content = {} THEN [read |-> 0, write |-> 0]
  ELSE LET d == CHOOSE x \in DOMAIN content : TRUE
       IN [read |-> content[d].read * SECTOR_BYTES, write |-> content[d].write * SECTOR_BYTES]
\* totalRead / totalWrite: bytes over all qualifying rows.
DiskTotals(content) ==
  [read |-> SumOver([d \in DOMAIN content |-> content[d].read * SECTOR_BYTES], DOMAIN content),
   write |-> SumOver([d \in DOMAIN content |-> content[d].write * SECTOR_BYTES], DOMAIN content)]

\* The aggregate rates with the elapsed time floored at 1 ms instead of guarded.
AggDiskRatesFlooredDt(total, now) ==
  IF prevDiskStats # NULL
  THEN [readRate |-> Rate(total.read, prevDiskStats.read,
                          Max(1, now - prevDiskStats.timestamp)),
        writeRate |-> Rate(total.write, prevDiskStats.write,
                           Max(1, now - prevDiskStats.timestamp))]
  ELSE [readRate |-> Zero, writeRate |-> Zero]
\* Aggregate rates: against prevDiskStats when it exists and time has advanced.
AggDiskRates(total, now) ==
  IF prevDiskStats # NULL /\ now - prevDiskStats.timestamp > 0
  THEN [readRate |-> Rate(total.read, prevDiskStats.read, now - prevDiskStats.timestamp),
        writeRate |-> Rate(total.write, prevDiskStats.write, now - prevDiskStats.timestamp)]
  ELSE [readRate |-> Zero, writeRate |-> Zero]

\* if (prevPerDiskStats[dev]) { dt = ...; if (dt > 0) { ... } }
DiskEmits(dev, now) ==
  dev \in DOMAIN prevPerDiskStats /\ now - prevPerDiskStats[dev].timestamp > 0

\* perDiskStats with a zero-rate entry for a device that has no stored snapshot.
PerDiskStatsWithFirstSight(content, now) ==
  [dev \in {d \in DOMAIN content : d \notin DOMAIN prevPerDiskStats \/ DiskEmits(d, now)} |->
     IF dev \in DOMAIN prevPerDiskStats
     THEN [readRate |-> Rate(content[dev].read * SECTOR_BYTES, prevPerDiskStats[dev].read,
                             now - prevPerDiskStats[dev].timestamp),
           writeRate |-> Rate(content[dev].write * SECTOR_BYTES, prevPerDiskStats[dev].write,
                              now - prevPerDiskStats[dev].timestamp)]
     ELSE [readRate |-> Zero, writeRate |-> Zero]]
\* stats.perDiskStats of the pass.
PerDiskStats(content, now) ==
  [dev \in {d \in DOMAIN content : DiskEmits(d, now)} |->
     [readRate |-> Rate(content[dev].read * SECTOR_BYTES, prevPerDiskStats[dev].read,
                        now - prevPerDiskStats[dev].timestamp),
      writeRate |-> Rate(content[dev].write * SECTOR_BYTES, prevPerDiskStats[dev].write,
                         now - prevPerDiskStats[dev].timestamp)]]

\* The store keeping the sector counts as read, not converted to bytes.
NewPrevPerDiskStatsInSectors(content, now) ==
  [dev \in DOMAIN prevPerDiskStats \cup DOMAIN content |->
     IF dev \in DOMAIN content
     THEN [read |-> content[dev].read, write |-> content[dev].write, timestamp |-> now]
     ELSE prevPerDiskStats[dev]]
\* prevPerDiskStats[dev] = {read, write, timestamp: now} for every reported device;
\* the entries of the other devices stay.
NewPrevPerDiskStats(content, now) ==
  [dev \in DOMAIN prevPerDiskStats \cup DOMAIN content |->
     IF dev \in DOMAIN content
     THEN [read |-> content[dev].read * SECTOR_BYTES,
           write |-> content[dev].write * SECTOR_BYTES, timestamp |-> now]
     ELSE prevPerDiskStats[dev]]

\* One point per emitted rate; the stream is created when its first rate is emitted.
PerDiskAppend(keepAll, hists, perStats, n) ==
  [dev \in DOMAIN hists \cup DOMAIN perStats |->
     IF dev \in DOMAIN perStats
     THEN LET old == IF dev \in DOMAIN hists THEN hists[dev]
                     ELSE [read |-> <<>>, write |-> <<>>]
          IN [read |-> Push(keepAll, old.read, perStats[dev].readRate, n),
              write |-> Push(keepAll, old.write, perStats[dev].writeRate, n)]
     ELSE hists[dev]]
\* The per-disk streams left as they were.
NewPerDiskHistoriesSkipped(perStats, n) == perDiskHistories
NewPerDiskHistories(perStats, n) ==
  PerDiskAppend(FALSE, perDiskHistories, perStats, n)

\* ---------------------------------------------------------------- network
NetTotals(content) ==
  [sent |-> SumOver([i \in DOMAIN content |-> content[i].sent], DOMAIN content),
   recv |-> SumOver([i \in DOMAIN content |-> content[i].recv], DOMAIN content)]

\* The aggregate rates with the previous totals taken from the per-interface store.
AggNetRatesFromPerIface(total, now) ==
  LET prevSent == SumOver([i \in DOMAIN prevPerIfaceStats |-> prevPerIfaceStats[i].sent],
                          DOMAIN prevPerIfaceStats)
      prevRecv == SumOver([i \in DOMAIN prevPerIfaceStats |-> prevPerIfaceStats[i].recv],
                          DOMAIN prevPerIfaceStats)
  IN IF prevNetStats # NULL /\ now - prevNetStats.timestamp > 0
     THEN [sentRate |-> Rate(total.sent, prevSent, now - prevNetStats.timestamp),
           recvRate |-> Rate(total.recv, prevRecv, now - prevNetStats.timestamp)]
     ELSE [sentRate |-> Zero, recvRate |-> Zero]
\* Aggregate rates: against prevNetStats when it exists and time has advanced.
AggNetRates(total, now) ==
  IF prevNetStats # NULL /\ now - prevNetStats.timestamp > 0
  THEN [sentRate |-> Rate(total.sent, prevNetStats.sent, now - prevNetStats.timestamp),
        recvRate |-> Rate(total.recv, prevNetStats.recv, now - prevNetStats.timestamp)]
  ELSE [sentRate |-> Zero, recvRate |-> Zero]

IfaceEmits(iface, now) ==
  iface \in DOMAIN prevPerIfaceStats /\ now - prevPerIfaceStats[iface].timestamp > 0

PerIfaceStats(content, now) ==
  [iface \in {i \in DOMAIN content : IfaceEmits(i, now)} |->
     [sentRate |-> Rate(content[iface].sent, prevPerIfaceStats[iface].sent,
                        now - prevPerIfaceStats[iface].timestamp),
      recvRate |-> Rate(content[iface].recv, prevPerIfaceStats[iface].recv,
                        now - prevPerIfaceStats[iface].timestamp)]]

NewPrevPerIfaceStats(content, now) ==
  [iface \in DOMAIN prevPerIfaceStats \cup DOMAIN content |->
     IF iface \in DOMAIN content
     THEN [sent |-> content[iface].sent, recv |-> content[iface].recv, timestamp |-> now]
     ELSE prevPerIfaceStats[iface]]

PerIfaceAppend(keepAll, hists, perStats, n) ==
  [iface \in DOMAIN hists \cup DOMAIN perStats |->
     IF iface \in DOMAIN perStats
     THEN LET old == IF iface \in DOMAIN hists THEN hists[iface]
                     ELSE [sent |-> <<>>, recv |-> <<>>]
          IN [sent |-> Push(keepAll, old.sent, perStats[iface].sentRate, n),
              recv |-> Push(keepAll, old.recv, perStats[iface].recvRate, n)]
     ELSE hists[iface]]
NewPerIfaceHistories(perStats, n) ==
  PerIfaceAppend(FALSE, perIfaceHistories, perStats, n)

\* ---------------------------------------------------------- fetchSystemStats
ZeroStats ==
  [cpuUsage |-> Zero, cpuCores |-> 1, cpuPerCore |-> <<>>,
   memoryTotal |-> 0, memoryUsed |-> 0, memoryFree |-> 0, memoryCached |-> 0,
   swapTotal |-> 0, swapUsed |-> 0,
   diskReadRate |-> Zero, diskWriteRate |-> Zero, perDiskStats |-> EmptyMap,
   networkSentRate |-> Zero, networkRecvRate |-> Zero, perIfaceStats |-> EmptyMap]

\* The SystemStats a call returns: the zero-initialised object, with the fields
\* of every family whose content is there filled in (none when a read rejected).
StatsOf(inp) ==
  IF inp.failed THEN ZeroStats
  ELSE LET hasStat == inp.stat # NULL
           hasMem == inp.mem # NULL
           hasDisk == inp.disk # NULL
           hasNet == inp.net # NULL
           disk == IF hasDisk THEN AggDiskRates(DiskTotals(inp.disk), inp.now)
                   ELSE [readRate |-> Zero, writeRate |-> Zero]
           net == IF hasNet THEN AggNetRates(NetTotals(inp.net), inp.now)
                  ELSE [sentRate |-> Zero, recvRate |-> Zero]
       IN [cpuUsage |-> IF hasStat THEN CpuUsage(inp.stat.total) ELSE Zero,
           cpuCores |-> IF hasStat THEN CpuCores(inp.stat.cores) ELSE 1,
           cpuPerCore |-> IF hasStat THEN CpuPerCore(inp.stat.cores) ELSE <<>>,
           memoryTotal |-> IF hasMem THEN inp.mem.MemTotal ELSE 0,
           memoryUsed |-> IF hasMem THEN MemoryUsed(inp.mem) ELSE 0,
           memoryFree |-> IF hasMem THEN inp.mem.MemFree ELSE 0,
           memoryCached |-> IF hasMem THEN MemoryCached(inp.mem) ELSE 0,
           swapTotal |-> IF hasMem THEN inp.mem.SwapTotal ELSE 0,
           swapUsed |-> IF hasMem THEN inp.mem.SwapTotal - inp.mem.SwapFree ELSE 0,
           diskReadRate |-> disk.readRate,
           diskWriteRate |-> disk.writeRate,
           perDiskStats |-> IF hasDisk THEN PerDiskStats(inp.disk, inp.now) ELSE EmptyMap,
           networkSentRate |-> net.sentRate,
           networkRecvRate |-> net.recvRate,
           perIfaceStats |-> IF hasNet THEN PerIfaceStats(inp.net, inp.now) ELSE EmptyMap]

\* The appends cut short after the memory stream.
GlobalAppendCutShort(keepAll, hist, st, n) ==
  [hist EXCEPT !.cpu = Push(keepAll, hist.cpu, st.cpuUsage, n),
               !.memory = Push(keepAll, hist.memory, MemoryPercent(st), n)]
\* "Update history": one point per global stream, from the returned stats.
GlobalAppend(keepAll, hist, st, n) ==
  [cpu |-> Push(keepAll, hist.cpu, st.cpuUsage, n),
   memory |-> Push(keepAll, hist.memory, MemoryPercent(st), n),
   diskRead |-> Push(keepAll, hist.diskRead, st.diskReadRate, n),
   diskWrite |-> Push(keepAll, hist.diskWrite, st.diskWriteRate, n),
   networkSent |-> Push(keepAll, hist.networkSent, st.networkSentRate, n),
   networkRecv |-> Push(keepAll, hist.networkRecv, st.networkRecvRate, n)]
NewHistoryOnSuccessOnly(st, n) ==
  IF st = ZeroStats THEN history ELSE GlobalAppend(FALSE, history, st, n)
NewHistory(st, n) == GlobalAppend(FALSE, history, st, n)

\* How an async function settles: a rejection raised inside it reaches the
\* caller only when no catch of the function encloses the await that raised it.
Settles(thrown, caught) == IF thrown /\ ~caught THEN "rejected" ELSE "resolved"

fetchSystemStatsOutcomeUncaught(inp) == Settles(inp.failed, FALSE)
\* The Promise.all of the six reads is awaited inside the try; the catch logs
\* and falls through to the appends and the return.
fetchSystemStatsOutcome(inp) == Settles(inp.failed, TRUE)

\* The part of fetchSystemStats after its await: it runs to the end without
\* another suspension point.
fetchSystemStats(inp) ==
  \E st \in {StatsOf(inp)} :
  LET n == passNo + 1
      hasStat == ~inp.failed /\ inp.stat # NULL
      hasDisk == ~inp.failed /\ inp.disk # NULL
      hasNet == ~inp.failed /\ inp.net # NULL
  IN /\ stats' = st
     /\ prevCpuTimes' = IF hasStat THEN [v |-> inp.stat.total] ELSE prevCpuTimes
     /\ prevPerCoreTimes' = IF hasStat THEN [v |-> inp.stat.cores] ELSE prevPerCoreTimes
     /\ perCoreHistories' =
          IF hasStat THEN NewPerCoreHistories(st.cpuPerCore, n) ELSE perCoreHistories
     /\ prevDiskStats' =
          IF hasDisk
          THEN [read |-> DiskTotals(inp.disk).read, write |-> DiskTotals(inp.disk).write,
                timestamp |-> inp.now]
          ELSE prevDiskStats
     /\ prevPerDiskStats' =
          IF hasDisk THEN NewPrevPerDiskStats(inp.disk, inp.now) ELSE prevPerDiskStats
     /\ perDiskHistories' =
          IF hasDisk THEN NewPerDiskHistories(st.perDiskStats, n) ELSE perDiskHistories
     /\ prevNetStats' =
          IF hasNet
          THEN [sent |-> NetTotals(inp.net).sent, recv |-> NetTotals(inp.net).recv,
                timestamp |-> inp.now]
          ELSE prevNetStats
     /\ prevPerIfaceStats' =
          IF hasNet THEN NewPrevPerIfaceStats(inp.net, inp.now) ELSE prevPerIfaceStats
     /\ perIfaceHistories' =
          IF hasNet THEN NewPerIfaceHistories(st.perIfaceStats, n) ELSE perIfaceHistories
     /\ history' = NewHistory(st, n)
     /\ passNo' = n
     /\ clock' = inp.now
     /\ UNCHANGED <<prevIoStats, processes, procNo, obtained>>
     /\ last' = [call |-> "fetchSystemStats", inp |-> inp,
                 outcome |-> fetchSystemStatsOutcome(inp)]
     /\ pre' = [disk |-> prevPerDiskStats, aggDisk |-> prevDiskStats,
                iface |-> prevPerIfaceStats, aggNet |-> prevNetStats,
                cpu |-> prevCpuTimes, cores |-> prevPerCoreTimes]
     /\ reports' = Append(reports,
                          IF inp.failed THEN [ok |-> FALSE, disks |-> {}, ifaces |-> {}]
                          ELSE [ok |-> TRUE,
                                disks |-> IF hasDisk THEN DOMAIN inp.disk ELSE {},
                                ifaces |-> IF hasNet THEN DOMAIN inp.net ELSE {}])
     /\ appended' =
          [gpu |-> appended.gpu,
           global |-> GlobalAppend(TRUE, appended.global, st, n),
           core |-> IF hasStat THEN PerCoreAppend(TRUE, appended.core, st.cpuPerCore, n)
                    ELSE appended.core,
           disk |-> IF hasDisk THEN PerDiskAppend(TRUE, appended.disk, st.perDiskStats, n)
                    ELSE appended.disk,
           iface |-> IF hasNet THEN PerIfaceAppend(TRUE, appended.iface, st.perIfaceStats, n)
                     ELSE appended.iface]

\* ------------------------------------------------------------ fetchProcesses
\* diskRead / diskWrite of one listed pid.
ProcessIoRates(pid, io, now) ==
  IF pid \in DOMAIN io /\ pid \in DOMAIN prevIoStats
     /\ now - prevIoStats[pid].timestamp > 0
  THEN [diskRead |-> Rate(io[pid].readBytes, prevIoStats[pid].read,
                          now - prevIoStats[pid].timestamp),
        diskWrite |-> Rate(io[pid].writeBytes, prevIoStats[pid].write,
                           now - prevIoStats[pid].timestamp)]
  ELSE [diskRead |-> Zero, diskWrite |-> Zero]

\* prevIoStats after the loop, without the clean-up of the pids not listed.
NewPrevIoStatsNoCleanup(ps, io, now) ==
  [pid \in DOMAIN prevIoStats \cup (ps \cap DOMAIN io) |->
     IF pid \in ps /\ pid \in DOMAIN io
     THEN [read |-> io[pid].readBytes, write |-> io[pid].writeBytes, timestamp |-> now]
     ELSE prevIoStats[pid]]
\* prevIoStats after the loop over the listed pids (an entry is written for
\* a listed pid whose io counters were read) and the clean-up of the entries
\* of pids that are not listed.
NewPrevIoStats(ps, io, now) ==
  [pid \in {p \in DOMAIN prevIoStats \cup (ps \cap DOMAIN io) : p \in ps} |->
     IF pid \in DOMAIN io
     THEN [read |-> io[pid].readBytes, write |-> io[pid].writeBytes, timestamp |-> now]
     ELSE prevIoStats[pid]]

\* The ps command is awaited inside the try, whose catch returns []; the
\* reads of fetchProcessIo are caught there.
fetchProcessesOutcome(inp) == Settles(inp.failed, TRUE)

\* The loop and the clean-up run on what the commands printed, whatever it is.
PrevIoStatsAfterAnyListing(inp) == NewPrevIoStats(inp.ps, inp.io, inp.now)
\* prevIoStats when the call returns: the loop and the clean-up are inside
\* the try, after the await that a rejected ps command leaves by the catch.
PrevIoStatsAfter(inp) ==
  IF inp.failed THEN prevIoStats ELSE NewPrevIoStats(inp.ps, inp.io, inp.now)

\* The part of fetchProcesses after its await; a rejected ps command is caught
\* and an empty list returned.
fetchProcesses(inp) ==
  /\ processes' = IF inp.failed THEN EmptyMap
                  ELSE [pid \in inp.ps |-> ProcessIoRates(pid, inp.io, inp.now)]
  /\ prevIoStats' = PrevIoStatsAfter(inp)
  /\ procNo' = procNo + 1
  /\ clock' = inp.now
  /\ last' = [call |-> "fetchProcesses", inp |-> inp, outcome |-> fetchProcessesOutcome(inp)]
  /\ pre' = [io |-> prevIoStats]
  /\ UNCHANGED <<engine, stats, passNo, reports, appended, obtained>>

\* ------------------------------------------------------------ fetchGpuStats
\* A percentage as the fraction the streams hold.
Pct(x) == Rat(x, 1)

HasNvidia(gpus) == \E k \in DOMAIN gpus : gpus[k].vendor = "nvidia"
IsSysfsGpu(g) == g.vendor = "amd" \/ g.vendor = "intel"

\* parseFloat / parseInt of a text: its number, or NaN.
NaN == [nan |-> TRUE]
ParseNumber(t) == IF "num" \in DOMAIN t THEN [v |-> t.num] ELSE NaN
\* The value that stands for a reading that is not available.
Sentinel == Rat(-1, 1)

NvidiaReadingUnchecked(t) ==
  IF ParseNumber(t) = NaN THEN NaN ELSE Rat(ParseNumber(t).v, 1)
\* isNaN(x) ? -1 : x, x being parseFloat of the field.
NvidiaReading(t) ==
  IF ParseNumber(t) = NaN THEN Sentinel ELSE Rat(ParseNumber(t).v, 1)

\* tempStr?.trim() ? parseInt(tempStr.trim(), 10) / 1000 : -1, tempStr being
\* '' when the command rejects.
SysfsTemperature(t) ==
  IF t = NULL \/ t = [text |-> ""] THEN Sentinel
  ELSE IF ParseNumber(t) = NaN THEN NaN ELSE Rat(ParseNumber(t).v, 1000)

\* The rows of the nvidia-smi output that have at least 7 fields; none when
\* the command rejects.
HasSevenFields(row) == row.fields >= 7
NvidiaSamples(gpus, inp) ==
  IF HasNvidia(gpus) /\ inp.nvidia # NULL
  THEN LET rows == SelectSeq(inp.nvidia.v, HasSevenFields)
       IN [k \in DOMAIN rows |->
             [idx |-> rows[k].idx,
              gpuUsage |-> Pct(rows[k].gpuUsage),
              memoryUsage |-> Pct(rows[k].memoryUsage),
              temperature |-> NvidiaReading(rows[k].temp),
              powerDraw |-> NvidiaReading(rows[k].power)]]
  ELSE <<>>

\* One sample per amd / intel device; a file that cannot be read reads as '0'.
SysfsSample(g, files) ==
  [idx |-> g.index,
   gpuUsage |-> Pct(IF files.busy = NULL THEN 0 ELSE files.busy.v),
   memoryUsage |->
     IF files.vramTotal # NULL /\ files.vramTotal.v > 0
     THEN Rat((IF files.vramUsed = NULL THEN 0 ELSE files.vramUsed.v) * 100, files.vramTotal.v)
     ELSE Zero,
   temperature |-> SysfsTemperature(files.temp),
   powerDraw |-> Sentinel]
SysfsSamples(gpus, inp) ==
  LET sysfsGpus == SelectSeq(gpus, IsSysfsGpu)
  IN [k \in DOMAIN sysfsGpus |-> SysfsSample(sysfsGpus[k], inp.sysfs[sysfsGpus[k].index])]

GpuSamples(gpus, inp) ==
  IF gpus = <<>> THEN <<>> ELSE NvidiaSamples(gpus, inp) \o SysfsSamples(gpus, inp)

\* if (!gpuHistories[idx]) gpuHistories[idx] = { usage: [], memory: [] };
\* addHistoryPoint(usage, gpuUsage); addHistoryPoint(memory, memUsage) - per sample, in order.
RECURSIVE GpuAppend(_, _, _, _)
GpuAppend(keepAll, hists, samples, n) ==
  IF samples = <<>> THEN hists
  ELSE LET smp == Head(samples)
           old == IF smp.idx \in DOMAIN hists THEN hists[smp.idx]
                  ELSE [usage |-> <<>>, memory |-> <<>>]
           new == [usage |-> Push(keepAll, old.usage, smp.gpuUsage, n),
                   memory |-> Push(keepAll, old.memory, smp.memoryUsage, n)]
       IN GpuAppend(keepAll,
                    [i \in DOMAIN hists \cup {smp.idx} |-> IF i = smp.idx THEN new ELSE hists[i]],
                    Tail(samples), n)

\* The nvidia-smi query is awaited inside a try with an empty catch, and each
\* sysfs read carries its own .catch(() => '0').
fetchGpuStatsOutcome(gpus, inp) ==
  Settles((HasNvidia(gpus) /\ inp.nvidia = NULL)
            \/ (\E k \in DOMAIN gpus : IsSysfsGpu(gpus[k]) /\ inp.sysfs[gpus[k].index].busy = NULL),
          TRUE)

\* fetchGpuStats(gpus) for a non-empty list, from its awaits to its return.
fetchGpuStats(gpus, inp) ==
  LET samples == GpuSamples(gpus, inp)
  IN /\ gpuStats' = [k \in DOMAIN samples |->
                       [gpuUsage |-> samples[k].gpuUsage, memoryUsage |-> samples[k].memoryUsage,
                        temperature |-> samples[k].temperature,
                        powerDraw |-> samples[k].powerDraw]]
     /\ gpuHistories' = GpuAppend(FALSE, gpuHistories, samples, gpuNo + 1)
     /\ gpuNo' = gpuNo + 1
     /\ last' = [call |-> "fetchGpuStats", inp |-> inp,
                 outcome |-> fetchGpuStatsOutcome(gpus, inp)]
     /\ pre' = [gpu |-> gpuHistories]
     /\ appended' = [appended EXCEPT !.gpu = GpuAppend(TRUE, appended.gpu, samples, gpuNo + 1)]
     /\ UNCHANGED <<engine, prevIoStats, stats, processes, passNo, procNo, clock, reports,
                     obtained>>

\* ---------------------------------------------------------------- accessors
\* An array value in the hands of a caller is either one of the engine's own
\* array objects (a reference: what the array holds is whatever the engine's
\* stream holds now) or an array of its own.
HistoryKeys == {"cpu", "memory", "diskRead", "diskWrite", "networkSent", "networkRecv"}
Ref(store, key, field) == [ref |-> [store |-> store, key |-> key, field |-> field]]
Own(arr) == [own |-> arr]
IsRef(a) == "ref" \in DOMAIN a
Target(r) ==
  CASE r.store = "history" -> history[r.key]
    [] r.store = "perDisk" -> perDiskHistories[r.key][r.field]
    [] r.store = "perIface" -> perIfaceHistories[r.key][r.field]
    [] r.store = "perCore" -> perCoreHistories[r.key]
    [] r.store = "gpu" -> gpuHistories[r.key][r.field]
Contents(a) == IF IsRef(a) THEN Target(a.ref) ELSE a.own

\* { ...history }: a new object whose six properties are the six arrays of
\* history themselves.
getSystemHistory == [k \in DOMAIN history |-> Ref("history", k, "")]

getPerDiskHistoryLive ==
  [dev \in DOMAIN perDiskHistories |->
     [read |-> Ref("perDisk", dev, "read"), write |-> Ref("perDisk", dev, "write")]]
\* result[dev] = { read: [...hist.read], write: [...hist.write] }: new arrays.
getPerDiskHistory ==
  [dev \in DOMAIN perDiskHistories |->
     [read |-> Own(perDiskHistories[dev].read), write |-> Own(perDiskHistories[dev].write)]]
getPerIfaceHistory ==
  [iface \in DOMAIN perIfaceHistories |->
     [sent |-> Own(perIfaceHistories[iface].sent), recv |-> Own(perIfaceHistories[iface].recv)]]
getPerCoreHistory ==
  [core \in DOMAIN perCoreHistories |-> Own(perCoreHistories[core])]
getGpuHistory ==
  [idx \in DOMAIN gpuHistories |->
     [usage |-> Own(gpuHistories[idx].usage), memory |-> Own(gpuHistories[idx].memory)]]

\* What the streams of returned values hold.
SystemContents(h) == [k \in DOMAIN h |-> Contents(h[k])]
PairContents(m) == [e \in DOMAIN m |-> [f \in DOMAIN m[e] |-> Contents(m[e][f])]]
CoreContents(m) == [e \in DOMAIN m |-> Contents(m[e])]
HeldContents(h) ==
  [system |-> SystemContents(h.system), perDisk |-> PairContents(h.perDisk),
   perIface |-> PairContents(h.perIface), perCore |-> CoreContents(h.perCore),
   gpu |-> PairContents(h.gpu)]

\* ------------------------------------------------------------ specification
Init ==
  /\ prevCpuTimes = NULL
  /\ prevPerCoreTimes = NULL
  /\ prevNetStats = NULL
  /\ prevPerIfaceStats = EmptyMap
  /\ prevDiskStats = NULL
  /\ prevPerDiskStats = EmptyMap
  /\ history = [cpu |-> <<>>, memory |-> <<>>, diskRead |-> <<>>, diskWrite |-> <<>>,
                networkSent |-> <<>>, networkRecv |-> <<>>]
  /\ perDiskHistories = EmptyMap
  /\ perIfaceHistories = EmptyMap
  /\ perCoreHistories = EmptyMap
  /\ prevIoStats = EmptyMap
  /\ stats = NULL
  /\ processes = EmptyMap
  /\ passNo = 0
  /\ procNo = 0
  /\ clock = StartTime
  /\ last = [call |-> "none", inp |-> NULL, outcome |-> "none"]
  /\ pre = NULL
  /\ reports = <<>>
  /\ gpuHistories = EmptyMap
  /\ gpuStats = <<>>
  /\ gpuNo = 0
  /\ mounted = FALSE
  /\ unmounted = FALSE
  /\ autoRefresh = TRUE
  /\ intervals = [ref |-> NULL, active |-> {}, made |-> 0]
  /\ hardware = [loaded |-> FALSE, gpus |-> <<>>]
  /\ calls = <<>>
  /\ signalTimers = <<>>
  /\ table = [selectedPid |-> NULL, killModalOpen |-> FALSE, actionError |-> NULL,
              kills |-> <<>>]
  /\ error = NULL
  /\ held = NULL
  /\ writes = 0
  /\ obtained = NULL
  /\ shown = [by |-> 0, processes |-> EmptyMap, systemStats |-> NULL, gpuStats |-> <<>>,
              systemHistory |-> [k \in HistoryKeys |-> Own(<<>>)], perDiskHistory |-> EmptyMap,
              perIfaceHistory |-> EmptyMap, perCoreHistory |-> EmptyMap,
              gpuHistory |-> EmptyMap]
  /\ appended = [gpu |-> EmptyMap,
                 global |-> [cpu |-> <<>>, memory |-> <<>>, diskRead |-> <<>>,
                            diskWrite |-> <<>>, networkSent |-> <<>>, networkRecv |-> <<>>],
                 core |-> EmptyMap, disk |-> EmptyMap, iface |-> EmptyMap]

\* The engine driven by a caller that awaits each call before the next.
SystemPass ==
  /\ passNo + procNo < MaxPasses
  /\ \E inp \in SysInputs(clock) : fetchSystemStats(inp)
  /\ UNCHANGED <<gpu, ui, caller>>
ProcessPass ==
  /\ passNo + procNo < MaxPasses
  /\ \E inp \in ProcInputs(clock) : fetchProcesses(inp)
  /\ UNCHANGED <<gpu, ui, caller>>

Next == SystemPass \/ ProcessPass

Spec == Init /\ [][Next]_vars

\* ------------------------------------------------------------- TaskManager
\* Refresh calls explored from mount.
MaxCalls == 2
\* Post-signal timers pending at a time.
MaxSignalTimers == 1

\* The reads of the calls of a refresh.
UiSysInputs(t) ==
  {FailedInput(t), SysInput(DefaultStat, DefaultMem, DefaultDisk, DefaultNet, t + Tick)}
UiProcInputs(t) ==
  {[failed |-> TRUE, ps |-> {}, io |-> [x \in {} |-> NULL], now |-> t],
   ProcInput(Pids, TopIo, t + Tick)}

\* refresh(): fetchProcesses() and fetchSystemStats() are called and the call
\* suspends at await Promise.all([...]); gpus is the hardware.gpus its closure holds.
NewCall(gpus) ==
  [gpus |-> gpus, proc |-> "io", sys |-> "io", pc |-> "fetch",
   processes |-> EmptyMap, systemStats |-> NULL, sysInp |-> NULL, sysPass |-> 0]
\* Fewer than n refresh calls have been started since mount.
StartsWithin(n) == mounted /\ Len(calls) < n

CleanupKeepsTimer(iv) == iv
\* return () => { if (intervalRef.current) clearInterval(intervalRef.current); }
Cleanup(iv) ==
  IF iv.ref # NULL THEN [iv EXCEPT !.active = @ \ {iv.ref.v}] ELSE iv
\* if (autoRefresh) intervalRef.current = setInterval(refresh, UPDATE_INTERVAL)
Effect(iv, auto) ==
  IF auto THEN [ref |-> [v |-> iv.made + 1], active |-> iv.active \cup {iv.made + 1},
                made |-> iv.made + 1]
  ELSE iv
CanStart == StartsWithin(MaxCalls)

\* The setters at the end of refresh: the accessors are called in the turn
\* in which the last fetch of the call returned, after its writes.
Shown(r, c, gpuS) ==
  [by |-> r, processes |-> c.processes, systemStats |-> c.systemStats, gpuStats |-> gpuS,
   systemHistory |-> getSystemHistory', perDiskHistory |-> getPerDiskHistory',
   perIfaceHistory |-> getPerIfaceHistory', perCoreHistory |-> getPerCoreHistory',
   gpuHistory |-> getGpuHistory']

\* refresh after one of its two fetches resolved (c: the call with that result
\* in): still awaiting the other; or on to fetchGpuStats, which for an empty
\* list returns [] at once, so that the setters run in the same turn.
\* A fetch that rejects makes the Promise.all of refresh reject: its catch
\* sets the error and the call is over, whatever its other fetch does later.
AfterFetch(r, c, outcome) ==
  LET both == c.proc = "done" /\ c.sys = "done"
      atOnce == both /\ c.gpus = <<>>
      over == c.pc = "done"
      caught == ~over /\ outcome = "rejected"
      set == ~over /\ ~caught /\ atOnce
  IN /\ calls' = [calls EXCEPT ![r] =
                    [c EXCEPT !.pc = IF over \/ caught THEN "done"
                                     ELSE IF ~both THEN "fetch"
                                     ELSE IF atOnce THEN "done" ELSE "gpu"]]
     /\ gpuStats' = IF set THEN <<>> ELSE gpuStats
     /\ UNCHANGED <<gpuHistories, gpuNo>>
     /\ shown' = IF set THEN Shown(r, c, <<>>) ELSE shown
     /\ error' = IF caught THEN [message |-> "Failed to fetch data"]
                 ELSE IF set THEN NULL ELSE error

\* useEffect(() => { fetchHardwareInfo().then(setHardware) }, []) and
\* useEffect(() => { refresh(); if (autoRefresh) setInterval(...) }, [autoRefresh, refresh])
Mount ==
  /\ ~mounted /\ ~unmounted
  /\ mounted' = TRUE
  /\ calls' = Append(calls, NewCall(hardware.gpus))
  /\ intervals' = Effect(intervals, autoRefresh)
  /\ UNCHANGED <<engine, prevIoStats, stats, processes, passNo, procNo, gpu,
                 unmounted, autoRefresh, hardware, signalTimers, table, shown, error, caller, clock, ghost>>

\* setHardware: refresh is re-created (its dependency hardware.gpus is a new
\* array), the effect's cleanup clears the interval and the effect runs again.
HardwareArrives ==
  /\ CanStart /\ ~hardware.loaded
  /\ \E g \in DetectedGpuLists :
       /\ hardware' = [loaded |-> TRUE, gpus |-> g]
       /\ calls' = Append(calls, NewCall(g))
  /\ intervals' = Effect(Cleanup(intervals), autoRefresh)
  /\ UNCHANGED <<engine, prevIoStats, stats, processes, passNo, procNo, gpu,
                 mounted, unmounted, autoRefresh, signalTimers, table, shown, error, caller, clock, ghost>>

\* The Auto refresh switch: setAutoRefresh(c) re-runs the same effect.
ToggleAutoRefreshWithin(n) ==
  /\ StartsWithin(n)
  /\ autoRefresh' = ~autoRefresh
  /\ calls' = Append(calls, NewCall(hardware.gpus))
  /\ intervals' = Effect(Cleanup(intervals), autoRefresh')
  /\ UNCHANGED <<engine, prevIoStats, stats, processes, passNo, procNo, gpu,
                 mounted, unmounted, hardware, signalTimers, table, shown, error, caller, clock, ghost>>

ToggleAutoRefresh == ToggleAutoRefreshWithin(MaxCalls)

\* The interval timer fires: refresh().
IntervalTickWithin(n) ==
  /\ StartsWithin(n) /\ intervals.active # {}
  /\ calls' = Append(calls, NewCall(hardware.gpus))
  /\ UNCHANGED <<engine, prevIoStats, stats, processes, passNo, procNo, gpu,
                 mounted, unmounted, autoRefresh, intervals, hardware, signalTimers, table, shown,
                 error, caller, clock, ghost>>

IntervalTick == IntervalTickWithin(MaxCalls)

\* The Refresh button: onClick={refresh}.
ClickRefreshWithin(n) ==
  /\ StartsWithin(n)
  /\ calls' = Append(calls, NewCall(hardware.gpus))
  /\ UNCHANGED <<engine, prevIoStats, stats, processes, passNo, procNo, gpu,
                 mounted, unmounted, autoRefresh, intervals, hardware, signalTimers, table, shown,
                 error, caller, clock, ghost>>

ClickRefresh == ClickRefreshWithin(MaxCalls)

\* handleKill (on success), handleStopProcess, handleContinueProcess, after
\* killProcess resolved: setTimeout(onRefresh, 500), onRefresh being the
\* refresh of the current render.
SignalSent ==
  /\ mounted /\ Len(signalTimers) < MaxSignalTimers
  /\ signalTimers' = Append(signalTimers, hardware.gpus)
  /\ UNCHANGED <<engine, prevIoStats, stats, processes, passNo, procNo, gpu,
                 mounted, unmounted, autoRefresh, intervals, hardware, calls, table, shown, error, caller, clock, ghost>>

\* The 500 ms timer fires: onRefresh().
PostSignalTimerWithin(n) ==
  /\ Len(calls) < n /\ signalTimers # <<>>
  /\ calls' = Append(calls, NewCall(Head(signalTimers)))
  /\ signalTimers' = Tail(signalTimers)
  /\ UNCHANGED <<engine, prevIoStats, stats, processes, passNo, procNo, gpu,
                 mounted, unmounted, autoRefresh, intervals, hardware, table, shown, error, caller, clock, ghost>>

PostSignalTimer == PostSignalTimerWithin(MaxCalls)

\* The reads of call r's fetchProcesses resolve (to one of inputs): it runs to
\* its return.
ProcResumeFrom(r, inputs) ==
  /\ calls[r].proc = "io"
  /\ \E inp \in inputs : fetchProcesses(inp)
  /\ AfterFetch(r, [calls[r] EXCEPT !.proc = "done", !.processes = processes'],
                last'.outcome)
  /\ UNCHANGED <<mounted, unmounted, autoRefresh, intervals, hardware, signalTimers, table, caller>>

ProcResume(r) == ProcResumeFrom(r, UiProcInputs(clock))

\* The reads of call r's fetchSystemStats resolve (to one of inputs): it runs
\* to its return.
SysResumeFrom(r, inputs) ==
  /\ calls[r].sys = "io"
  /\ \E inp \in inputs : fetchSystemStats(inp)
  /\ AfterFetch(r, [calls[r] EXCEPT !.sys = "done", !.systemStats = stats',
                                   !.sysInp = last'.inp, !.sysPass = passNo'],
                last'.outcome)
  /\ UNCHANGED <<mounted, unmounted, autoRefresh, intervals, hardware, signalTimers, table, caller>>

SysResume(r) == SysResumeFrom(r, UiSysInputs(clock))

\* The queries of call r's fetchGpuStats resolve (to one of inputs); then the
\* setters run.
GpuResumeFrom(r, inputs) ==
  /\ calls[r].pc = "gpu"
  /\ \E inp \in inputs : fetchGpuStats(calls[r].gpus, inp)
  /\ calls' = [calls EXCEPT ![r].pc = "done"]
  /\ shown' = IF last'.outcome = "rejected" THEN shown
              ELSE Shown(r, calls[r], gpuStats')
  /\ error' = IF last'.outcome = "rejected" THEN [message |-> "Failed to fetch data"]
              ELSE NULL
  /\ UNCHANGED <<mounted, unmounted, autoRefresh, intervals, hardware, signalTimers, table, caller>>
GpuResume(r) == GpuResumeFrom(r, GpuInputs)

NextUI ==
  \/ Mount
  \/ HardwareArrives
  \/ ToggleAutoRefresh
  \/ IntervalTick
  \/ ClickRefresh
  \/ SignalSent
  \/ PostSignalTimer
  \/ \E r \in DOMAIN calls : ProcResume(r)
  \/ \E r \in DOMAIN calls : SysResume(r)
  \/ \E r \in DOMAIN calls : GpuResume(r)

SpecUI == Init /\ [][NextUI]_vars

\* ---------------------------------------------------------- long histories
\* Refresh cycles explored beyond the capacity of a stream.
HistExtra == 3
HistPasses == MAX_HISTORY_POINTS + HistExtra

\* The n-th readings of a steady workload: the counters grow, by varying steps.
HistCpuLine(n) == <<10 * n * n, 0, 0, 100 * n, 0, 0, 0, 0>>
HistStat(n) == [total |-> HistCpuLine(n), cores |-> <<HistCpuLine(n), HistCpuLine(n + 1)>>]
HistMem(n) == [DefaultMem EXCEPT !.MemFree = n % 5]
HistDisk(n) == [d \in Disks |-> [read |-> 2 * n + (n % 3), write |-> 4 * n]]
HistNet(n) == [i \in Ifaces |-> [recv |-> (2 * n + (n % 3)) * KB, sent |-> n * KB]]
HistInput(n, t) == SysInput(HistStat(n), HistMem(n), HistDisk(n), HistNet(n), t + Tick)
HistGpuInput(n) == GpuInput([v |-> <<NvidiaRow(0, n % 50)>>], NULL)
HistGpus == <<Nvidia0>>

\* Steady until the streams are about to fill; then a pass may also fail, or
\* report one device only.
HistSysInputs(n, t) ==
  IF n < MAX_HISTORY_POINTS THEN {HistInput(n, t)}
  ELSE {HistInput(n, t), FailedInput(t),
        SysInput(HistStat(n), HistMem(n), [d \in {"sda"} |-> HistDisk(n)[d]], HistNet(n),
                 t + Tick)}
HistGpuInputs(n) ==
  IF n < MAX_HISTORY_POINTS THEN {HistGpuInput(n)}
  ELSE {HistGpuInput(n), GpuInput(NULL, NULL)}

\* Successive refresh cycles, each awaited: fetchSystemStats, then fetchGpuStats.
HistSystemPass ==
  /\ passNo = gpuNo /\ passNo < HistPasses
  /\ \E inp \in HistSysInputs(passNo + 1, clock) : fetchSystemStats(inp)
  /\ UNCHANGED <<gpu, ui, caller>>
HistGpuPass ==
  /\ gpuNo < passNo
  /\ \E inp \in HistGpuInputs(gpuNo + 1) : fetchGpuStats(HistGpus, inp)
  /\ UNCHANGED <<ui, caller>>

NextHist == HistSystemPass \/ HistGpuPass

SpecHist == Init /\ [][NextHist]_vars

\* ------------------------------------------------------- CPU and memory
\* Awaited fetchSystemStats passes over /proc/stat and /proc/meminfo contents
\* of every shape: tick fields that go back between two passes, a line
\* without an iowait field, a changing number of per-core lines (the kernel
\* reports at least cpu0), and meminfo tables from nothing used to
\* everything used, without a MemTotal line (read as 0), and with free and
\* cached amounts that together exceed MemTotal.
CpuLineC == <<200, 0, 50, 790, 50, 0, 0, 0>>
CpuLineD == <<90, 0, 50, 830, 50, 0, 0, 0>>
CpuLineShort == <<130, 0, 60, 900>>
CpuTickLines == {CpuLineA, CpuLineB, CpuLineC, CpuLineD, CpuLineShort}
CpuCoreLists == {<<CpuLineA>>, <<CpuLineB>>, <<CpuLineA, CpuLineB>>, <<CpuLineC, CpuLineD>>}
CpuStatContents ==
  {[total |-> CpuLineA, cores |-> c] : c \in CpuCoreLists}
  \cup {[total |-> t, cores |-> <<CpuLineA>>] : t \in CpuTickLines}
CpuMemContents ==
  {DefaultMem,
   [DefaultMem EXCEPT !.MemFree = 8, !.Cached = 0, !.Buffers = 0],
   [DefaultMem EXCEPT !.MemFree = 0, !.Cached = 0, !.Buffers = 0],
   [DefaultMem EXCEPT !.MemTotal = 0, !.MemFree = 0, !.Cached = 0, !.Buffers = 0],
   [DefaultMem EXCEPT !.MemFree = 8]}
CpuSysInputs(t) ==
  {FailedInput(t)}
  \cup {SysInput(s, DefaultMem, DefaultDisk, DefaultNet, t + Tick) : s \in CpuStatContents}
  \cup {SysInput(DefaultStat, m, DefaultDisk, DefaultNet, t + Tick) : m \in CpuMemContents}
  \cup {SysInput(NULL, NULL, DefaultDisk, DefaultNet, t + Tick)}

CpuPass ==
  /\ passNo < MaxPasses
  /\ \E inp \in CpuSysInputs(clock) : fetchSystemStats(inp)
  /\ UNCHANGED <<gpu, ui, caller>>

NextCpu == CpuPass

SpecCpu == Init /\ [][NextCpu]_vars

\* --------------------------------------------------- rows and their filter
\* The spelling of the device and interface names that occur in the rows.
Chars ==
  [sda |-> <<"s", "d", "a">>, sdb |-> <<"s", "d", "b">>,
   sda1 |-> <<"s", "d", "a", "1">>, loop0 |-> <<"l", "o", "o", "p", "0">>,
   nvme0n1 |-> <<"n", "v", "m", "e", "0", "n", "1">>,
   eth0 |-> <<"e", "t", "h", "0">>, lo |-> <<"l", "o">>]
Letters ==
  {"a", "b", "c", "d", "e", "f", "g", "h", "i", "j", "k", "l", "m", "n", "o", "p", "q", "r",
   "s", "t", "u", "v", "w", "x", "y", "z"}
Digits == {"0", "1", "2", "3", "4", "5", "6", "7", "8", "9"}
DiskPrefixes ==
  {<<"s", "d">>, <<"n", "v", "m", "e">>, <<"v", "d">>, <<"x", "v", "d">>, <<"h", "d">>}
\* /^(sd|nvme|vd|xvd|hd)[a-z]/.test(devName)
HasDiskPrefix(w) ==
  \E pfx \in DiskPrefixes :
    /\ Len(w) > Len(pfx)
    /\ SubSeq(w, 1, Len(pfx)) = pfx
    /\ w[Len(pfx) + 1] \in Letters
\* /\d+$/.test(devName)
EndsInDigit(w) == w # <<>> /\ w[Len(w)] \in Digits

\* A row of /proc/diskstats counts when its name has a block-device prefix and
\* no trailing number.
QualifiesWithPartitions(devName) == HasDiskPrefix(Chars[devName])
Qualifies(devName) == HasDiskPrefix(Chars[devName]) /\ ~EndsInDigit(Chars[devName])
\* if (iface === 'lo') continue;
IsLoopback(iface) == Chars[iface] = <<"l", "o">>

\* currentPerDisk / currentPerIface: the rows that pass the filter.
ParseDiskstats(rows) == [dev \in {d \in DOMAIN rows : Qualifies(d)} |-> rows[dev]]
ParseNetDev(rows) == [iface \in {i \in DOMAIN rows : ~IsLoopback(i)} |-> rows[iface]]

\* Awaited passes over whole tables: rows of disks, of a partition, of a loop
\* device and of an NVMe namespace, rows of an interface and of the loopback
\* interface; sector counters as in the documented example, read one or two
\* seconds apart.
ExampleSectors == {1000, 1512}
ExampleGaps == {1000, 2000}
OtherRow == [read |-> 5, write |-> 5]
ExtraDiskRows == {{}, {"sdb"}, {"sda1", "loop0", "nvme0n1"}}
RawDisk(c, extra) ==
  [dev \in {"sda"} \cup extra |-> IF dev = "sda" THEN [read |-> c, write |-> c] ELSE OtherRow]
RawNet(c, withLo) ==
  [iface \in {"eth0"} \cup (IF withLo THEN {"lo"} ELSE {}) |->
     IF iface = "eth0" THEN [recv |-> c * KB, sent |-> 2 * c * KB]
     ELSE [recv |-> 9 * KB, sent |-> 9 * KB]]
\* The input of a pass together with the tables its contents were parsed from.
RawSysInput(rawDisk, rawNet, t) ==
  LET inp == SysInput(DefaultStat, DefaultMem, ParseDiskstats(rawDisk), ParseNetDev(rawNet), t)
  IN [f \in DOMAIN inp \cup {"rawDisk", "rawNet"} |->
        IF f = "rawDisk" THEN rawDisk ELSE IF f = "rawNet" THEN rawNet ELSE inp[f]]
RawSysInputs(t) ==
  {RawSysInput(RawDisk(c, extra), RawNet(1, TRUE), t + gap) :
     c \in ExampleSectors, extra \in ExtraDiskRows, gap \in ExampleGaps}
  \cup {RawSysInput(RawDisk(1000, {}), RawNet(c, withLo), t + 1000) :
          c \in Counters, withLo \in BOOLEAN}

RowsPass ==
  /\ passNo < MaxPasses
  /\ \E inp \in RawSysInputs(clock) : fetchSystemStats(inp)
  /\ UNCHANGED <<gpu, ui, caller>>

NextRows == RowsPass

SpecRows == Init /\ [][NextRows]_vars

\* ------------------------------------------------- a caller of the accessors
\* Awaited passes, with a caller that calls the accessors between them and
\* may mutate what they returned.
MaxWrites == 1
MarkerPoint == [value |-> Zero, pass |-> 0]
WriteKinds == {"push", "shift"}
Stores ==
  [history |-> history, perDisk |-> perDiskHistories, perIface |-> perIfaceHistories,
   perCore |-> perCoreHistories, gpu |-> gpuHistories]

\* The previous-snapshot stores, and all the state the engine keeps.
PrevStores ==
  [cpu |-> prevCpuTimes, perCore |-> prevPerCoreTimes, net |-> prevNetStats,
   perIface |-> prevPerIfaceStats, disk |-> prevDiskStats, perDisk |-> prevPerDiskStats,
   io |-> prevIoStats]
EngineState == [streams |-> Stores, prev |-> PrevStores]

ReadSystemPass ==
  /\ passNo + procNo + gpuNo < MaxPasses
  /\ \E inp \in UiSysInputs(clock) : fetchSystemStats(inp)
  /\ UNCHANGED <<gpu, ui, caller>>
ReadProcessPass ==
  /\ passNo + procNo + gpuNo < MaxPasses
  /\ \E inp \in UiProcInputs(clock) : fetchProcesses(inp)
  /\ UNCHANGED <<gpu, ui, caller>>
ReadGpuPass ==
  /\ passNo + procNo + gpuNo < MaxPasses
  /\ \E gpus \in DetectedGpuLists \ {<<>>}, inp \in GpuInputs : fetchGpuStats(gpus, inp)
  /\ UNCHANGED <<ui, caller>>

GetHistoriesSampling ==
  /\ held' = [system |-> getSystemHistory, perDisk |-> getPerDiskHistory,
              perIface |-> getPerIfaceHistory, perCore |-> getPerCoreHistory,
              gpu |-> getGpuHistory]
  /\ history' = [k \in DOMAIN history |-> addHistoryPoint(history[k], Zero, passNo + 1)]
  /\ obtained' = HeldContents(held')
  /\ last' = [call |-> "accessors", inp |-> NULL, outcome |-> "returned"]
  /\ pre' = EngineState
  /\ UNCHANGED <<prevCpuTimes, prevPerCoreTimes, prevNetStats, prevPerIfaceStats, prevDiskStats,
                 prevPerDiskStats, perDiskHistories, perIfaceHistories, perCoreHistories,
                 prevIoStats, stats, processes, passNo, procNo, gpu, ui, writes, clock,
                 reports, appended>>
\* The five accessors called back to back, as refresh calls them: each builds
\* and returns its result and assigns to no store.
GetHistories ==
  /\ held' = [system |-> getSystemHistory, perDisk |-> getPerDiskHistory,
              perIface |-> getPerIfaceHistory, perCore |-> getPerCoreHistory,
              gpu |-> getGpuHistory]
  /\ UNCHANGED <<engine, prevIoStats, stats, processes, passNo, procNo, gpu, ui, writes, clock,
                 reports, appended>>
  /\ obtained' = HeldContents(held')
  /\ last' = [call |-> "accessors", inp |-> NULL, outcome |-> "returned"]
  /\ pre' = EngineState

\* A write to the array object a reference designates.
WriteThrough(r, new) ==
  /\ history' = IF r.store = "history" THEN [history EXCEPT ![r.key] = new] ELSE history
  /\ perDiskHistories' = IF r.store = "perDisk"
                         THEN [perDiskHistories EXCEPT ![r.key][r.field] = new]
                         ELSE perDiskHistories
  /\ perIfaceHistories' = IF r.store = "perIface"
                          THEN [perIfaceHistories EXCEPT ![r.key][r.field] = new]
                          ELSE perIfaceHistories
  /\ perCoreHistories' = IF r.store = "perCore" THEN [perCoreHistories EXCEPT ![r.key] = new]
                         ELSE perCoreHistories
  /\ gpuHistories' = IF r.store = "gpu" THEN [gpuHistories EXCEPT ![r.key][r.field] = new]
                     ELSE gpuHistories
\* arr.push(point) or arr.shift() by the caller on a returned array a;
\* heldIfOwn: what the caller holds afterwards when the array is its own.
Mutated(arr, kind) == IF kind = "push" THEN Append(arr, MarkerPoint) ELSE Tail(arr)
WriteArray(a, kind, heldIfOwn) ==
  /\ kind = "shift" => Contents(a) # <<>>
  /\ IF IsRef(a)
     THEN WriteThrough(a.ref, Mutated(Contents(a), kind)) /\ held' = held
     ELSE /\ held' = heldIfOwn
          /\ UNCHANGED <<history, perDiskHistories, perIfaceHistories, perCoreHistories,
                         gpuHistories>>
WriteFrame(on, key) ==
  /\ writes' = writes + 1
  /\ last' = [call |-> "write", inp |-> [on |-> on, key |-> key], outcome |-> "returned"]
  /\ pre' = EngineState
  /\ UNCHANGED <<prevCpuTimes, prevPerCoreTimes, prevNetStats, prevPerIfaceStats, prevDiskStats,
                 prevPerDiskStats, prevIoStats, stats, processes, passNo, procNo, gpuStats,
                 gpuNo, ui, clock, reports, appended, obtained>>

\* The caller mutates a stream of the returned global history.
WriteSystem ==
  /\ held # NULL /\ writes < MaxWrites
  /\ \E k \in {"cpu"}, kind \in WriteKinds :
       WriteArray(held.system[k], kind,
                  [held EXCEPT !.system[k] = Own(Mutated(Contents(@), kind))])
  /\ WriteFrame("system", "cpu")
\* The caller mutates a stream of a returned per-entity map, or deletes a key.
WriteDisk ==
  /\ held # NULL /\ writes < MaxWrites
  /\ \E dev \in DOMAIN held.perDisk :
       /\ \/ \E kind \in WriteKinds :
               WriteArray(held.perDisk[dev].read, kind,
                          [held EXCEPT !.perDisk[dev].read = Own(Mutated(Contents(@), kind))])
          \/ /\ held' = [held EXCEPT !.perDisk =
                                    [d \in DOMAIN held.perDisk \ {dev} |-> held.perDisk[d]]]
             /\ UNCHANGED <<history, perDiskHistories, perIfaceHistories, perCoreHistories,
                            gpuHistories>>
       /\ WriteFrame("perDisk", dev)
WriteIface ==
  /\ held # NULL /\ writes < MaxWrites
  /\ \E iface \in DOMAIN held.perIface :
       /\ WriteArray(held.perIface[iface].sent, "push",
                     [held EXCEPT !.perIface[iface].sent = Own(Mutated(Contents(@), "push"))])
       /\ WriteFrame("perIface", iface)
WriteCore ==
  /\ held # NULL /\ writes < MaxWrites
  /\ \E core \in DOMAIN held.perCore :
       /\ WriteArray(held.perCore[core], "push",
                     [held EXCEPT !.perCore[core] = Own(Mutated(Contents(@), "push"))])
       /\ WriteFrame("perCore", [v |-> core])
WriteGpu ==
  /\ held # NULL /\ writes < MaxWrites
  /\ \E idx \in DOMAIN held.gpu :
       /\ WriteArray(held.gpu[idx].usage, "push",
                     [held EXCEPT !.gpu[idx].usage = Own(Mutated(Contents(@), "push"))])
       /\ WriteFrame("gpu", [v |-> idx])

NextRead ==
  \/ ReadSystemPass
  \/ ReadProcessPass
  \/ ReadGpuPass
  \/ GetHistories
  \/ WriteSystem
  \/ WriteDisk
  \/ WriteIface
  \/ WriteCore
  \/ WriteGpu

SpecRead == Init /\ [][NextRead]_vars

\* -------------------------------------------------------------- properties
SysDone == last.call = "fetchSystemStats" /\ ~last.inp.failed
ProcDone == last.call = "fetchProcesses" /\ ~last.inp.failed
Points(stream) == {stream[k] : k \in DOMAIN stream}

\* C1: after a pass whose reads succeeded, the keys of prevPerDiskStats are
\* exactly the qualifying devices that pass reported, and the keys of
\* prevPerIfaceStats exactly the interfaces it reported.
C1_StoreKeysAreLatestPass ==
  SysDone => /\ DOMAIN prevPerDiskStats = DOMAIN last.inp.disk
             /\ DOMAIN prevPerIfaceStats = DOMAIN last.inp.net

\* C2: after a pass whose reads succeeded, perDiskHistories and
\* perIfaceHistories hold only keys of entities that pass reported.
C2_HistoryKeysAreLatestPass ==
  SysDone => /\ DOMAIN perDiskHistories \subseteq DOMAIN last.inp.disk
             /\ DOMAIN perIfaceHistories \subseteq DOMAIN last.inp.net

\* An interface reported by pass N, not by pass N+1, and again by pass N+2,
\* the last pass, which came after the timestamp stored in pass N.
Reappeared(i) ==
  /\ SysDone
  /\ passNo >= 3
  /\ reports[passNo - 2].ok /\ i \in reports[passNo - 2].ifaces
  /\ reports[passNo - 1].ok /\ i \notin reports[passNo - 1].ifaces
  /\ i \in reports[passNo].ifaces
  /\ last.inp.now > pre.iface[i].timestamp

\* C3: for an interface present in pass N, absent in pass N+1 and present
\* again in pass N+2, the history after pass N+2 has length 1, holds no point
\* of pass N or earlier, and pass N+2 emits no rate computed against the
\* counters stored in pass N.
C3_ReappearanceStartsFresh ==
  \A i \in Ifaces :
    Reappeared(i) =>
      /\ i \in DOMAIN perIfaceHistories
      /\ Len(perIfaceHistories[i].sent) = 1
      /\ \A pt \in Points(perIfaceHistories[i].sent) : pt.pass > passNo - 2
      /\ i \notin DOMAIN stats.perIfaceStats

\* C4: at most one refresh call is in flight at a time - none starts while
\* an earlier one is still suspended at an await of its reads.
InFlight == {r \in DOMAIN calls : calls[r].pc # "done"}
C4_OnePassAtATime == Cardinality(InFlight) <= 1

\* C5: every rate the engine emits is non-negative: the aggregate and the
\* per-entity rates of the returned stats, the per-process rates, and every
\* value of a rate history stream.
C5_RatesNonNegative ==
  /\ stats # NULL =>
       /\ RatNonNeg(stats.diskReadRate) /\ RatNonNeg(stats.diskWriteRate)
       /\ RatNonNeg(stats.networkSentRate) /\ RatNonNeg(stats.networkRecvRate)
       /\ \A d \in DOMAIN stats.perDiskStats :
            RatNonNeg(stats.perDiskStats[d].readRate) /\ RatNonNeg(stats.perDiskStats[d].writeRate)
       /\ \A i \in DOMAIN stats.perIfaceStats :
            RatNonNeg(stats.perIfaceStats[i].sentRate) /\ RatNonNeg(stats.perIfaceStats[i].recvRate)
  /\ \A pid \in DOMAIN processes :
       RatNonNeg(processes[pid].diskRead) /\ RatNonNeg(processes[pid].diskWrite)
  /\ \A pt \in Points(history.diskRead) \cup Points(history.diskWrite)
               \cup Points(history.networkSent) \cup Points(history.networkRecv) :
       RatNonNeg(pt.value)
  /\ \A d \in DOMAIN perDiskHistories :
       \A pt \in Points(perDiskHistories[d].read) \cup Points(perDiskHistories[d].write) :
         RatNonNeg(pt.value)
  /\ \A i \in DOMAIN perIfaceHistories :
       \A pt \in Points(perIfaceHistories[i].sent) \cup Points(perIfaceHistories[i].recv) :
         RatNonNeg(pt.value)

\* A counter went down over a positive elapsed time and the emitted rate is
\* 0: for a device, for the aggregate, and for a process.
C5_Witness ==
  \/ /\ SysDone
     /\ \E d \in DOMAIN stats.perDiskStats :
          /\ last.inp.disk[d].read * SECTOR_BYTES < pre.disk[d].read
          /\ stats.perDiskStats[d].readRate = Zero
     /\ pre.aggNet # NULL /\ last.inp.now > pre.aggNet.timestamp
     /\ NetTotals(last.inp.net).sent < pre.aggNet.sent
     /\ stats.networkSentRate = Zero
  \/ /\ ProcDone
     /\ \E pid \in DOMAIN processes :
          /\ pid \in DOMAIN pre.io /\ pid \in DOMAIN last.inp.io
          /\ last.inp.now > pre.io[pid].timestamp
          /\ last.inp.io[pid].readBytes < pre.io[pid].read
          /\ processes[pid].diskRead = Zero
     /\ passNo >= 1

\* C6: when the time elapsed since the stored previous timestamp is zero or
\* negative, the aggregate disk and network rates of the pass are 0 and the
\* per-process rates are 0, whatever the counters.
C6_ZeroElapsedGivesZero ==
  /\ SysDone =>
       /\ (pre.aggDisk # NULL /\ last.inp.now - pre.aggDisk.timestamp <= 0)
            => stats.diskReadRate = Zero /\ stats.diskWriteRate = Zero
       /\ (pre.aggNet # NULL /\ last.inp.now - pre.aggNet.timestamp <= 0)
            => stats.networkSentRate = Zero /\ stats.networkRecvRate = Zero
  /\ ProcDone =>
       \A pid \in DOMAIN processes :
         (pid \in DOMAIN pre.io /\ last.inp.now - pre.io[pid].timestamp <= 0)
           => processes[pid].diskRead = Zero /\ processes[pid].diskWrite = Zero

\* A pass with no elapsed time whose counters are above the stored ones.
C6_Witness ==
  \/ /\ SysDone
     /\ pre.aggDisk # NULL /\ last.inp.now - pre.aggDisk.timestamp <= 0
     /\ DiskTotals(last.inp.disk).read > pre.aggDisk.read
     /\ stats.diskReadRate = Zero
     /\ procNo >= 1
  \/ /\ ProcDone
     /\ \E pid \in DOMAIN processes :
          /\ pid \in DOMAIN pre.io /\ pid \in DOMAIN last.inp.io
          /\ last.inp.now - pre.io[pid].timestamp < 0
          /\ last.inp.io[pid].readBytes > pre.io[pid].read
          /\ processes[pid].diskRead = Zero
     /\ passNo >= 1

\* The stream holds the last min(N, 60) of the N points handed to
\* addHistoryPoint for it, in insertion order.
Retained(stream, log) ==
  /\ Len(stream) = Min(Len(log), MAX_HISTORY_POINTS)
  /\ stream = SubSeq(log, Len(log) - Len(stream) + 1, Len(log))

\* C7: every history stream (the six global ones, each per-disk,
\* per-interface, per-core and per-GPU one) has length min(N, 60) after N
\* appends and holds exactly the last min(N, 60) appended points, oldest
\* first; its length never exceeds 60.
C7_HistoryBound ==
  /\ \A k \in DOMAIN history :
       Retained(history[k], appended.global[k]) /\ Len(history[k]) <= MAX_HISTORY_POINTS
  /\ DOMAIN perDiskHistories = DOMAIN appended.disk
  /\ \A d \in DOMAIN perDiskHistories : \A k \in {"read", "write"} :
       /\ Retained(perDiskHistories[d][k], appended.disk[d][k])
       /\ Len(perDiskHistories[d][k]) <= MAX_HISTORY_POINTS
  /\ DOMAIN perIfaceHistories = DOMAIN appended.iface
  /\ \A i \in DOMAIN perIfaceHistories : \A k \in {"sent", "recv"} :
       /\ Retained(perIfaceHistories[i][k], appended.iface[i][k])
       /\ Len(perIfaceHistories[i][k]) <= MAX_HISTORY_POINTS
  /\ DOMAIN perCoreHistories = DOMAIN appended.core
  /\ \A c \in DOMAIN perCoreHistories :
       /\ Retained(perCoreHistories[c], appended.core[c])
       /\ Len(perCoreHistories[c]) <= MAX_HISTORY_POINTS
  /\ DOMAIN gpuHistories = DOMAIN appended.gpu
  /\ \A g \in DOMAIN gpuHistories : \A k \in {"usage", "memory"} :
       /\ Retained(gpuHistories[g][k], appended.gpu[g][k])
       /\ Len(gpuHistories[g][k]) <= MAX_HISTORY_POINTS

\* More than 60 points have been appended to a stream of each kind, and the
\* oldest ones are gone.
C7_Witness ==
  /\ Len(appended.global.cpu) > MAX_HISTORY_POINTS
  /\ Len(history.cpu) = MAX_HISTORY_POINTS
  /\ history.cpu[1].pass = Len(appended.global.cpu) - MAX_HISTORY_POINTS + 1
  /\ \E d \in DOMAIN perDiskHistories : Len(appended.disk[d].read) > MAX_HISTORY_POINTS
  /\ \E i \in DOMAIN perIfaceHistories : Len(appended.iface[i].sent) > MAX_HISTORY_POINTS
  /\ \E c \in DOMAIN perCoreHistories : Len(appended.core[c]) > MAX_HISTORY_POINTS
  /\ \E g \in DOMAIN gpuHistories : Len(appended.gpu[g].usage) > MAX_HISTORY_POINTS

\* C8: an entity reported for the first time (no stored previous snapshot)
\* gets no rate sample in that pass (no perDiskStats / perIfaceStats entry,
\* per-process rates 0), and its counters and the pass's timestamp are stored
\* as its baseline.
C8_FirstSightSuppressed ==
  /\ SysDone =>
       /\ \A d \in DOMAIN last.inp.disk \ DOMAIN pre.disk :
            /\ d \notin DOMAIN stats.perDiskStats
            /\ d \in DOMAIN prevPerDiskStats
            /\ prevPerDiskStats[d] =
                 [read |-> last.inp.disk[d].read * SECTOR_BYTES,
                  write |-> last.inp.disk[d].write * SECTOR_BYTES,
                  timestamp |-> last.inp.now]
       /\ \A i \in DOMAIN last.inp.net \ DOMAIN pre.iface :
            /\ i \notin DOMAIN stats.perIfaceStats
            /\ i \in DOMAIN prevPerIfaceStats
            /\ prevPerIfaceStats[i] =
                 [sent |-> last.inp.net[i].sent, recv |-> last.inp.net[i].recv,
                  timestamp |-> last.inp.now]
  /\ ProcDone =>
       \A pid \in (last.inp.ps \cap DOMAIN last.inp.io) \ DOMAIN pre.io :
         /\ processes[pid].diskRead = Zero /\ processes[pid].diskWrite = Zero
         /\ pid \in DOMAIN prevIoStats
         /\ prevIoStats[pid] =
              [read |-> last.inp.io[pid].readBytes, write |-> last.inp.io[pid].writeBytes,
               timestamp |-> last.inp.now]

\* A device first reported by a later pass than the first, beside a device
\* that is already tracked and gets its rate.
C8_Witness ==
  /\ SysDone
  /\ passNo >= 2
  /\ \E d \in DOMAIN last.inp.disk : d \notin DOMAIN pre.disk
  /\ \E d \in DOMAIN last.inp.disk : d \in DOMAIN stats.perDiskStats

\* The previous fetchSystemStats call reported the entity too.
DiskReportedBefore(d) ==
  passNo >= 2 /\ reports[passNo - 1].ok /\ d \in reports[passNo - 1].disks
IfaceReportedBefore(i) ==
  passNo >= 2 /\ reports[passNo - 1].ok /\ i \in reports[passNo - 1].ifaces
DiskPointEmitted(d) ==
  /\ d \in DOMAIN stats.perDiskStats
  /\ d \in DOMAIN perDiskHistories
  /\ perDiskHistories[d].read[Len(perDiskHistories[d].read)]
       = [value |-> stats.perDiskStats[d].readRate, pass |-> passNo]
  /\ perDiskHistories[d].write[Len(perDiskHistories[d].write)]
       = [value |-> stats.perDiskStats[d].writeRate, pass |-> passNo]
IfacePointEmitted(i) ==
  /\ i \in DOMAIN stats.perIfaceStats
  /\ i \in DOMAIN perIfaceHistories
  /\ perIfaceHistories[i].sent[Len(perIfaceHistories[i].sent)]
       = [value |-> stats.perIfaceStats[i].sentRate, pass |-> passNo]
  /\ perIfaceHistories[i].recv[Len(perIfaceHistories[i].recv)]
       = [value |-> stats.perIfaceStats[i].recvRate, pass |-> passNo]
\* C9: an entity reported by two passes in a row gets a rate sample and a
\* history point in the second of them (Seen-Once lasts exactly one pass).
C9_TrackedEveryLaterPass ==
  SysDone =>
    /\ \A d \in DOMAIN last.inp.disk : DiskReportedBefore(d) => DiskPointEmitted(d)
    /\ \A i \in DOMAIN last.inp.net : IfaceReportedBefore(i) => IfacePointEmitted(i)

\* C10: the first pass that reports an entity appends a baseline point of
\* value 0 to its history stream, which then exists and has length 1.
C10_FirstSightBaselinePoint ==
  SysDone =>
    /\ \A d \in DOMAIN last.inp.disk \ DOMAIN pre.disk :
         /\ d \in DOMAIN perDiskHistories
         /\ Len(perDiskHistories[d].read) = 1
         /\ perDiskHistories[d].read[1].value = Zero
    /\ \A i \in DOMAIN last.inp.net \ DOMAIN pre.iface :
         /\ i \in DOMAIN perIfaceHistories
         /\ Len(perIfaceHistories[i].sent) = 1
         /\ perIfaceHistories[i].sent[1].value = Zero

\* C11: after a fetchProcesses pass whose ps command succeeded, prevIoStats
\* holds no pid that the pass did not list; a pid listed again later is
\* then at first sight (no stored snapshot).
C11_ExitedPidsPruned ==
  ProcDone => DOMAIN prevIoStats \subseteq last.inp.ps

\* A pid that had a stored snapshot is not listed by the pass, and its entry is gone.
C11_Witness ==
  /\ ProcDone
  /\ \E pid \in DOMAIN pre.io : pid \notin last.inp.ps /\ pid \notin DOMAIN prevIoStats

\* C12: in a pass where exactly one of the six reads fails, the values of
\* every other family in the returned stats, and its store updates, are
\* computed from the data read in that pass.
C12_OtherFamiliesUnaffected ==
  (last.call = "fetchSystemStats" /\ Cardinality(last.inp.rejected) = 1) =>
    /\ ("/proc/meminfo" \notin last.inp.rejected /\ last.inp.mem # NULL) =>
         /\ stats.memoryTotal = last.inp.mem.MemTotal
         /\ stats.memoryFree = last.inp.mem.MemFree
         /\ stats.memoryUsed = MemoryUsed(last.inp.mem)
    /\ ("/proc/stat" \notin last.inp.rejected /\ last.inp.stat # NULL) =>
         /\ stats.cpuCores = CpuCores(last.inp.stat.cores)
         /\ prevCpuTimes = [v |-> last.inp.stat.total]
    /\ ("/proc/diskstats" \notin last.inp.rejected /\ last.inp.disk # NULL) =>
         /\ prevDiskStats # NULL /\ prevDiskStats.timestamp = last.inp.now
         /\ DOMAIN last.inp.disk \subseteq DOMAIN prevPerDiskStats
    /\ ("/proc/net/dev" \notin last.inp.rejected /\ last.inp.net # NULL) =>
         /\ prevNetStats # NULL /\ prevNetStats.timestamp = last.inp.now
         /\ DOMAIN last.inp.net \subseteq DOMAIN prevPerIfaceStats

\* C13: fetchSystemStats, fetchProcesses and fetchGpuStats always resolve:
\* whatever reads and commands fail, the sampling call just made has not
\* rejected to its caller.
SamplingCalls == {"fetchSystemStats", "fetchProcesses", "fetchGpuStats"}
C13_CallsAlwaysResolve ==
  last.call \in SamplingCalls => last.outcome = "resolved"
\* A fetchGpuStats whose nvidia-smi query and sysfs reads all failed has
\* resolved, after a fetchSystemStats whose reads had failed and had resolved.
C13_Witness ==
  /\ last.call = "fetchGpuStats" /\ last.outcome = "resolved"
  /\ last.inp.nvidia = NULL /\ last.inp.sysfs[0].busy = NULL
  /\ \E i \in DOMAIN reports : ~reports[i].ok

\* C14: when the only refresh completed so far is one whose fetchSystemStats
\* pass failed as a whole, an error is reported for it and the displayed
\* values are not the ones of that pass: the setters of that refresh have not
\* replaced what was shown before by its zeroed stats.
C14_FailedPassKeepsShownStats ==
  \A r \in DOMAIN calls :
    ( /\ calls[r].pc = "done"
      /\ calls[r].sysInp # NULL /\ calls[r].sysInp.failed
      /\ \A q \in DOMAIN calls \ {r} : calls[q].pc # "done" )
    => /\ error # NULL
       /\ shown.by # r
       /\ shown.systemStats # ZeroStats

\* C15: what getSystemHistory returned is independent of the engine: as long
\* as the caller has not touched it, each of its streams holds what it held
\* when it was returned, whatever passes ran since; and a caller's push or
\* shift on one of its streams leaves the engine's history as it was.
C15_SystemHistoryIndependent ==
  held # NULL =>
    /\ writes = 0 => SystemContents(held.system) = obtained.system
    /\ (last.call = "write" /\ last.inp.on = "system") => history = pre.streams.history

\* C16: what getPerDiskHistory, getPerIfaceHistory, getPerCoreHistory and
\* getGpuHistory returned is a copy: as long as the caller has not touched it,
\* each returned stream holds what it held when it was returned, whatever
\* passes ran since; and a caller's push or shift on a returned stream, or its
\* deletion of a returned key, leaves the four per-entity maps as they were.
C16_PerEntityCopies ==
  held # NULL =>
    /\ writes = 0 =>
         /\ PairContents(held.perDisk) = obtained.perDisk
         /\ PairContents(held.perIface) = obtained.perIface
         /\ CoreContents(held.perCore) = obtained.perCore
         /\ PairContents(held.gpu) = obtained.gpu
    /\ (last.call = "write" /\ last.inp.on # "system") =>
         /\ perDiskHistories = pre.streams.perDisk
         /\ perIfaceHistories = pre.streams.perIface
         /\ perCoreHistories = pre.streams.perCore
         /\ gpuHistories = pre.streams.gpu
\* A returned per-disk stream that held a point, to which the engine has
\* appended since and which the caller has then mutated.
C16_Witness ==
  /\ held # NULL /\ last.call = "write" /\ last.inp.on = "perDisk"
  /\ perDiskHistories = pre.streams.perDisk
  /\ \E dev \in DOMAIN held.perDisk :
       /\ obtained.perDisk[dev].read # <<>>
       /\ Len(perDiskHistories[dev].read) > Len(obtained.perDisk[dev].read)
       /\ Contents(held.perDisk[dev].read) # obtained.perDisk[dev].read

\* C17: a call of the read-only accessors leaves every previous-snapshot
\* store and every history stream as it found them, and completes no pass:
\* after the accessors returned, the engine's state is the state they found.
C17_AccessorsChangeNothing ==
  last.call = "accessors" => EngineState = pre
\* The accessors were called on an engine that has sampled: streams, stores
\* and GPU streams are populated.
C17_Witness ==
  /\ last.call = "accessors"
  /\ history.cpu # <<>> /\ prevDiskStats # NULL
  /\ DOMAIN perDiskHistories # {} /\ DOMAIN gpuHistories # {}
  /\ DOMAIN held.perDisk # {} /\ Contents(held.system.cpu) # <<>>

\* C18: what a completed refresh displays comes from one pass: the newest
\* point of every global stream and of every per-disk, per-interface and
\* per-core stream it obtained from the accessors was appended by the
\* fetchSystemStats pass that returned the stats it displays.
NewestFrom(arr, p) == arr # <<>> => arr[Len(arr)].pass = p
C18_ShownFromOnePass ==
  shown.by # 0 =>
    LET p == calls[shown.by].sysPass
    IN /\ \A k \in DOMAIN shown.systemHistory :
            NewestFrom(Contents(shown.systemHistory[k]), p)
       /\ \A dev \in DOMAIN shown.perDiskHistory :
            /\ NewestFrom(Contents(shown.perDiskHistory[dev].read), p)
            /\ NewestFrom(Contents(shown.perDiskHistory[dev].write), p)
       /\ \A iface \in DOMAIN shown.perIfaceHistory :
            /\ NewestFrom(Contents(shown.perIfaceHistory[iface].sent), p)
            /\ NewestFrom(Contents(shown.perIfaceHistory[iface].recv), p)
       /\ \A core \in DOMAIN shown.perCoreHistory :
            NewestFrom(Contents(shown.perCoreHistory[core]), p)

\* C19: every fetchSystemStats call hands exactly one point to each of the six
\* global streams, failed passes and passes without any per-entity point
\* included: after n calls each stream has received n points, the i-th of
\* them from the i-th call, and (below the capacity) holds exactly those.
C19_OneGlobalPointPerCall ==
  \A k \in HistoryKeys :
    /\ Len(appended.global[k]) = passNo
    /\ \A i \in 1..passNo : appended.global[k][i].pass = i
    /\ passNo <= MAX_HISTORY_POINTS => history[k] = appended.global[k]
\* A failed pass, after an earlier pass, with no per-entity stream in
\* existence: the global streams have their point of that pass.
C19_Witness ==
  /\ last.call = "fetchSystemStats" /\ last.inp.failed
  /\ passNo >= 2
  /\ DOMAIN perDiskHistories = {} /\ DOMAIN perIfaceHistories = {}
  /\ \A k \in HistoryKeys : history[k][Len(history[k])].pass = passNo

\* C20: the aggregate disk and network rates a successful pass returns are the
\* clamped difference between the sum of the counters just read and the total
\* that prevDiskStats / prevNetStats held before the pass, over the time since
\* that snapshot's timestamp (0 without such a snapshot or without elapsed
\* time); no per-entity store enters.
RatAdd(a, b) == Rat(a.num * b.den + b.num * a.den, a.den * b.den)
RECURSIVE SumRates(_, _, _)
SumRates(m, f, S) ==
  IF S = {} THEN Zero
  ELSE LET x == CHOOSE y \in S : TRUE IN RatAdd(m[x][f], SumRates(m, f, S \ {x}))
ExpectedRate(cur, prev, prevTime, now) ==
  IF now - prevTime > 0
  THEN Rat(Max(0, (cur - prev) * MS_PER_S), KB * (now - prevTime))
  ELSE Zero
C20_AggregateFromAggregateSnapshot ==
  (last.call = "fetchSystemStats" /\ ~last.inp.failed) =>
    /\ last.inp.disk # NULL =>
         LET cur == last.inp.disk
             read == SumOver([d \in DOMAIN cur |-> cur[d].read * SECTOR_BYTES], DOMAIN cur)
             write == SumOver([d \in DOMAIN cur |-> cur[d].write * SECTOR_BYTES], DOMAIN cur)
         IN IF pre.aggDisk = NULL
            THEN stats.diskReadRate = Zero /\ stats.diskWriteRate = Zero
            ELSE /\ stats.diskReadRate =
                      ExpectedRate(read, pre.aggDisk.read, pre.aggDisk.timestamp, last.inp.now)
                 /\ stats.diskWriteRate =
                      ExpectedRate(write, pre.aggDisk.write, pre.aggDisk.timestamp, last.inp.now)
    /\ last.inp.net # NULL =>
         LET cur == last.inp.net
             sent == SumOver([i \in DOMAIN cur |-> cur[i].sent], DOMAIN cur)
             recv == SumOver([i \in DOMAIN cur |-> cur[i].recv], DOMAIN cur)
         IN IF pre.aggNet = NULL
            THEN stats.networkSentRate = Zero /\ stats.networkRecvRate = Zero
            ELSE /\ stats.networkSentRate =
                      ExpectedRate(sent, pre.aggNet.sent, pre.aggNet.timestamp, last.inp.now)
                 /\ stats.networkRecvRate =
                      ExpectedRate(recv, pre.aggNet.recv, pre.aggNet.timestamp, last.inp.now)
\* A disk appeared between two passes: the aggregate read rate of the pass
\* is not the sum of the per-disk read rates of that pass.
C20_Witness ==
  /\ last.call = "fetchSystemStats" /\ ~last.inp.failed /\ last.inp.disk # NULL
  /\ pre.aggDisk # NULL
  /\ \E dev \in DOMAIN last.inp.disk : dev \notin DOMAIN pre.disk
  /\ DOMAIN stats.perDiskStats # {}
  /\ stats.diskReadRate #
       SumRates(stats.perDiskStats, "readRate", DOMAIN stats.perDiskStats)

\* C21: after a pass that read /proc/stat, stats.cpuUsage is 0 when no
\* aggregate line was stored or the total tick delta is not positive, and
\* else 100 * (totalDelta - idleDelta) / totalDelta brought into the range
\* 0..100, the deltas being those of the sum of all positional fields and of
\* the idle and iowait fields between the stored line and the line just read.
StatRead == last.call = "fetchSystemStats" /\ ~last.inp.failed /\ last.inp.stat # NULL
TotalDelta(cur, prev) == SumSeq(cur) - SumSeq(prev)
IdleDelta(cur, prev) ==
  (cur[4] + (IF Len(cur) >= 5 THEN cur[5] ELSE 0))
    - (prev[4] + (IF Len(prev) >= 5 THEN prev[5] ELSE 0))
BusyPercent(cur, prev) ==
  Rat(100 * (TotalDelta(cur, prev) - IdleDelta(cur, prev)), TotalDelta(cur, prev))
Hundred == [num |-> 100, den |-> 1]
Clamped(r) == IF r.num < 0 THEN Zero ELSE IF r.num > 100 * r.den THEN Hundred ELSE r
C21_CpuUsageClamped ==
  StatRead =>
    stats.cpuUsage =
      IF pre.cpu = NULL \/ TotalDelta(last.inp.stat.total, pre.cpu.v) <= 0 THEN Zero
      ELSE Clamped(BusyPercent(last.inp.stat.total, pre.cpu.v))
\* The statement without the clamp: the value is the quotient itself.
C21_CpuUsageIsQuotient ==
  StatRead =>
    stats.cpuUsage =
      IF pre.cpu = NULL \/ TotalDelta(last.inp.stat.total, pre.cpu.v) <= 0 THEN Zero
      ELSE BusyPercent(last.inp.stat.total, pre.cpu.v)
\* cpu 100 0 50 800 50 0 0 0 followed by cpu 120 0 60 820 60 0 0 0 gives 50.
C21_Witness ==
  /\ StatRead /\ pre.cpu # NULL
  /\ pre.cpu.v = CpuLineA /\ last.inp.stat.total = CpuLineB
  /\ stats.cpuUsage = [num |-> 50, den |-> 1]

\* C22: after a pass that read /proc/stat, cpuPerCore has one entry per
\* per-core line read; when no per-core lines were stored or their number
\* differs from the number read, every entry is 0, and else entry i is the
\* clamped busy percentage between line i read and line i stored; and the
\* stored per-core lines are now exactly the lines read, so that the next pass
\* takes its deltas against this pass only.
CoreReset ==
  pre.cores = NULL \/ Len(pre.cores.v) # Len(last.inp.stat.cores)
C22_CoreCountChangeResets ==
  StatRead =>
    LET cur == last.inp.stat.cores
    IN /\ Len(stats.cpuPerCore) = Len(cur)
       /\ \A i \in 1..Len(cur) :
            stats.cpuPerCore[i] =
              IF CoreReset \/ TotalDelta(cur[i], pre.cores.v[i]) <= 0 THEN Zero
              ELSE Clamped(BusyPercent(cur[i], pre.cores.v[i]))
       /\ prevPerCoreTimes = [v |-> cur]
\* The number of per-core lines went from two to one, core 0 had advanced, and
\* the pass reports 0 for it.
C22_Witness ==
  /\ StatRead /\ pre.cores # NULL
  /\ Len(pre.cores.v) = 2 /\ Len(last.inp.stat.cores) = 1
  /\ TotalDelta(last.inp.stat.cores[1], pre.cores.v[1]) > 0
  /\ stats.cpuPerCore = <<Zero>>
  /\ prevPerCoreTimes.v = last.inp.stat.cores

\* C23: every percentage the engine emits lies between 0 and 100:
\* stats.cpuUsage, every entry of stats.cpuPerCore, and every point of the
\* cpu, memory and per-core history streams.
IsPercent(r) == r.den > 0 /\ r.num >= 0 /\ r.num <= 100 * r.den
AllPercent(arr) == \A i \in DOMAIN arr : IsPercent(arr[i].value)
C23_PercentagesInRange ==
  /\ passNo > 0 =>
       /\ IsPercent(stats.cpuUsage)
       /\ \A i \in DOMAIN stats.cpuPerCore : IsPercent(stats.cpuPerCore[i])
  /\ AllPercent(history.cpu) /\ AllPercent(history.memory)
  /\ \A core \in DOMAIN perCoreHistories : AllPercent(perCoreHistories[core])

\* C24: for a disk that was in the store, read again t ms later (t > 0) with
\* its read-sector counter d sectors higher (d >= 0), the pass emits the read
\* rate d * 512 / 1024 / (t / 1000) KB/s for it.
DiskRead == last.call = "fetchSystemStats" /\ ~last.inp.failed /\ last.inp.disk # NULL
SectorsBefore(dev) == pre.disk[dev].read \div SECTOR_BYTES
C24_PerDiskReadRate ==
  DiskRead =>
    \A dev \in DOMAIN last.inp.disk \cap DOMAIN pre.disk :
      LET d == last.inp.disk[dev].read - SectorsBefore(dev)
          t == last.inp.now - pre.disk[dev].timestamp
      IN (t > 0 /\ d >= 0) =>
           /\ dev \in DOMAIN stats.perDiskStats
           /\ stats.perDiskStats[dev].readRate = Rat(d * 512 * 1000, 1024 * t)
\* 1000 -> 1512 sectors over 1000 ms gives 256 KB/s.
C24_Witness ==
  /\ DiskRead /\ "sda" \in DOMAIN pre.disk /\ "sda" \in DOMAIN stats.perDiskStats
  /\ SectorsBefore("sda") = 1000 /\ last.inp.disk["sda"].read = 1512
  /\ last.inp.now - pre.disk["sda"].timestamp = 1000
  /\ stats.perDiskStats["sda"].readRate = [num |-> 256, den |-> 1]

\* C25: rows the filter excludes never enter engine state: a disk row whose
\* name ends in a number (a partition) is never a key of prevPerDiskStats,
\* stats.perDiskStats or perDiskHistories, the loopback interface is never a
\* key of prevPerIfaceStats, stats.perIfaceStats or perIfaceHistories, and the
\* aggregate totals stored by a pass are the sums over the other rows only.
NumberedNames == {n \in DOMAIN Chars : EndsInDigit(Chars[n])}
RowsRead == DiskRead /\ last.inp.net # NULL
C25_ExcludedRowsStayOut ==
  /\ DOMAIN prevPerDiskStats \cap NumberedNames = {}
  /\ DOMAIN perDiskHistories \cap NumberedNames = {}
  /\ "lo" \notin DOMAIN prevPerIfaceStats
  /\ "lo" \notin DOMAIN perIfaceHistories
  /\ passNo > 0 =>
       /\ DOMAIN stats.perDiskStats \cap NumberedNames = {}
       /\ "lo" \notin DOMAIN stats.perIfaceStats
  /\ RowsRead =>
       LET disks == last.inp.rawDisk
           nets == last.inp.rawNet
           kept == DOMAIN disks \ NumberedNames
           ifs == DOMAIN nets \ {"lo"}
       IN /\ prevDiskStats.read = SumOver([d \in kept |-> disks[d].read * 512], kept)
          /\ prevDiskStats.write = SumOver([d \in kept |-> disks[d].write * 512], kept)
          /\ prevNetStats.sent = SumOver([i \in ifs |-> nets[i].sent], ifs)
          /\ prevNetStats.recv = SumOver([i \in ifs |-> nets[i].recv], ifs)
\* Two passes in a row read a partition row, a loop device row and the
\* loopback row; the disk and the interface beside them are tracked.
C25_Witness ==
  /\ RowsRead /\ passNo >= 2
  /\ {"sda1", "loop0"} \subseteq DOMAIN last.inp.rawDisk /\ "lo" \in DOMAIN last.inp.rawNet
  /\ DOMAIN stats.perDiskStats = {"sda"} /\ DOMAIN stats.perIfaceStats = {"eth0"}
  /\ DOMAIN perDiskHistories = {"sda"}

\* ------------------------------------------------- GPU detection and sampling
\* Card directories /sys/class/drm/card<n> of the machine.
Cards == {0, 1}
AmdVendorId == [text |-> "0x1002"]
IntelVendorId == [text |-> "0x8086"]

\* What the queries of detectGpus resolve to: the rows of nvidia-smi (NULL
\* when the command rejects) with the number of comma-separated fields of each,
\* the listed card directories (NULL when the listing rejects) and, per card,
\* whether test -f gpu_busy_percent succeeds and the text of the vendor file
\* (NULL when it cannot be read).
DetectRow(i, n) == [index |-> i, fields |-> n]
CardFiles(b, v) == [busy |-> b, vendor |-> v]
DetectInput(nv, cards, files) == [nvidia |-> nv, cards |-> cards, files |-> files]
DetectNvidia ==
  {NULL, [v |-> <<>>], [v |-> <<DetectRow(0, 1)>>], [v |-> <<DetectRow(0, 2)>>],
   [v |-> <<DetectRow(0, 2), DetectRow(1, 2)>>]}
DetectCards ==
  {[cards |-> NULL, files |-> [c \in Cards |-> CardFiles(TRUE, AmdVendorId)]],
   [cards |-> [v |-> <<0>>], files |-> [c \in Cards |-> CardFiles(FALSE, AmdVendorId)]],
   [cards |-> [v |-> <<0>>], files |-> [c \in Cards |-> CardFiles(TRUE, AmdVendorId)]],
   [cards |-> [v |-> <<0>>], files |-> [c \in Cards |-> CardFiles(TRUE, IntelVendorId)]],
   [cards |-> [v |-> <<0>>], files |-> [c \in Cards |-> CardFiles(TRUE, NULL)]],
   [cards |-> [v |-> <<0, 1>>], files |-> [c \in Cards |-> CardFiles(c = 1, AmdVendorId)]],
   [cards |-> [v |-> <<0, 1>>], files |-> [c \in Cards |-> CardFiles(TRUE, AmdVendorId)]]}
DetectInputs == {DetectInput(nv, c.cards, c.files) : nv \in DetectNvidia, c \in DetectCards}

\* if (parts.length >= 2) gpus.push({ index, name, vendor: 'nvidia' })
HasTwoFields(row) == row.fields >= 2
NvidiaDevices(inp) ==
  IF inp.nvidia = NULL THEN <<>>
  ELSE LET rows == SelectSeq(inp.nvidia.v, HasTwoFields)
       IN [k \in DOMAIN rows |-> [index |-> rows[k].index, vendor |-> "nvidia"]]

\* vendorId?.trim() === '0x1002' ? 'amd' : 'intel'
VendorOf(vendorId) == IF vendorId = AmdVendorId THEN "amd" ELSE "intel"

SysfsDevicesUnverified(inp) ==
  IF inp.cards = NULL THEN <<>>
  ELSE [k \in DOMAIN inp.cards.v |->
          [index |-> inp.cards.v[k], vendor |-> VendorOf(inp.files[inp.cards.v[k]].vendor)]]
\* for (const cardPath of ...) { if (exists) gpus.push({ index, name, vendor }) }
SysfsDevices(inp) ==
  IF inp.cards = NULL THEN <<>>
  ELSE LET exists(card) == inp.files[card].busy
           accepted == SelectSeq(inp.cards.v, exists)
       IN [k \in DOMAIN accepted |->
             [index |-> accepted[k], vendor |-> VendorOf(inp.files[accepted[k]].vendor)]]

\* The commands detectGpus runs: the card listing only if (gpus.length === 0).
DetectProbes(inp) ==
  {"nvidia-smi"} \cup (IF NvidiaDevices(inp) = <<>> THEN {"drm"} ELSE {})

detectGpusProbingBoth(inp) == NvidiaDevices(inp) \o SysfsDevices(inp)
detectGpus(inp) ==
  IF NvidiaDevices(inp) # <<>> THEN NvidiaDevices(inp) ELSE SysfsDevices(inp)

\* Each spawn and read of detectGpus carries its own .catch, inside a try
\* with an empty catch.
detectGpusOutcome(inp) ==
  Settles(inp.nvidia = NULL \/ (NvidiaDevices(inp) = <<>> /\ inp.cards = NULL), TRUE)

\* fetchHardwareInfo, from its awaits to its return, then setHardware.
fetchHardwareInfo(inp) ==
  /\ hardware' = [loaded |-> TRUE, gpus |-> detectGpus(inp)]
  /\ last' = [call |-> "fetchHardwareInfo", inp |-> inp, outcome |-> detectGpusOutcome(inp),
              probes |-> DetectProbes(inp)]
  /\ UNCHANGED <<engine, prevIoStats, stats, processes, passNo, procNo, gpu, clock,
                 pre, reports, appended, obtained>>

\* What the queries of one fetchGpuStats call resolve to on this machine.
SampleRow(i, u, t, p, n) ==
  [idx |-> i, gpuUsage |-> u, memoryUsage |-> 2 * u, fields |-> n, temp |-> t, power |-> p]
CardSample(b, total, used, t) == [busy |-> b, vramTotal |-> total, vramUsed |-> used, temp |-> t]
SampleInput(nv, files) == [nvidia |-> nv, sysfs |-> [c \in Cards |-> files]]
SampleInputs ==
  {SampleInput(NULL, CardSample(NULL, NULL, NULL, NULL)),
   SampleInput([v |-> <<SampleRow(0, 10, [num |-> 60], NotAvailable, 7),
                        SampleRow(1, 20, NotAvailable, [num |-> 75], 7)>>],
               CardSample([v |-> 30], [v |-> 4], [v |-> 1], [num |-> 45000])),
   SampleInput([v |-> <<SampleRow(0, 10, [num |-> 60], [num |-> 75], 6)>>],
               CardSample([v |-> 30], [v |-> 4], [v |-> 1], [text |-> ""])),
   SampleInput([v |-> <<>>], CardSample(NULL, [v |-> 4], [v |-> 1], [num |-> 45000]))}

Detect ==
  /\ ~hardware.loaded
  /\ \E inp \in DetectInputs : fetchHardwareInfo(inp)
  /\ UNCHANGED <<mounted, unmounted, autoRefresh, intervals, calls, signalTimers, table, shown, error, caller>>
GpuPass ==
  /\ hardware.loaded /\ gpuNo < MaxPasses
  /\ \E inp \in SampleInputs : fetchGpuStats(hardware.gpus, inp)
  /\ UNCHANGED <<ui, caller>>
NextGpu == Detect \/ GpuPass
SpecGpu == Init /\ [][NextGpu]_vars

\* C26: detection takes the first non-empty result in a fixed order: with at
\* least one usable nvidia-smi row the card directories are not listed and
\* every reported device is tagged nvidia; with no usable row (or a failed
\* query) and exactly one card directory that has gpu_busy_percent, exactly
\* one device is reported, tagged amd or intel; the list never holds both an
\* nvidia device and an amd / intel device.
Detected == last.call = "fetchHardwareInfo"
UsableRows(inp) ==
  IF inp.nvidia = NULL THEN {}
  ELSE {k \in DOMAIN inp.nvidia.v : inp.nvidia.v[k].fields >= 2}
CardsWithFile(inp) ==
  IF inp.cards = NULL THEN {}
  ELSE {k \in DOMAIN inp.cards.v : inp.files[inp.cards.v[k]].busy}
Vendors(gpus) == {gpus[k].vendor : k \in DOMAIN gpus}
C26_DetectionPriority ==
  /\ ~("nvidia" \in Vendors(hardware.gpus) /\ Vendors(hardware.gpus) \cap {"amd", "intel"} # {})
  /\ Detected =>
       /\ UsableRows(last.inp) # {} =>
            /\ "drm" \notin last.probes
            /\ Len(hardware.gpus) = Cardinality(UsableRows(last.inp))
            /\ Vendors(hardware.gpus) = {"nvidia"}
       /\ (UsableRows(last.inp) = {} /\ Cardinality(CardsWithFile(last.inp)) = 1) =>
            /\ Len(hardware.gpus) = 1
            /\ hardware.gpus[1].vendor \in {"amd", "intel"}
\* nvidia-smi answered with no row, two card directories are listed and only
\* card1 has the attribute file: card1 alone is reported.
C26_Witness ==
  /\ Detected /\ last.inp.nvidia = [v |-> <<>>]
  /\ last.inp.cards = [v |-> <<0, 1>>] /\ Cardinality(CardsWithFile(last.inp)) = 1
  /\ hardware.gpus = <<[index |-> 1, vendor |-> "amd"]>>

\* C27: the fallback accepts a card directory only if its gpu_busy_percent
\* file exists, and a failing query of either vendor is skipped: detectGpus
\* resolves, with a list that may be empty and holds no card without the file.
C27_FallbackVerifiesCard ==
  Detected =>
    /\ last.outcome = "resolved"
    /\ \A k \in DOMAIN hardware.gpus :
         hardware.gpus[k].vendor # "nvidia" =>
           /\ last.inp.cards # NULL
           /\ \E c \in DOMAIN last.inp.cards.v : last.inp.cards.v[c] = hardware.gpus[k].index
           /\ last.inp.files[hardware.gpus[k].index].busy
    /\ (last.inp.nvidia = NULL /\ last.inp.cards = NULL) => hardware.gpus = <<>>
\* nvidia-smi failed and the one listed card has no attribute file: the list
\* detectGpus resolves with is empty.
C27_Witness ==
  /\ Detected /\ last.inp.nvidia = NULL
  /\ last.inp.cards = [v |-> <<0>>] /\ ~last.inp.files[0].busy
  /\ hardware.gpus = <<>> /\ last.outcome = "resolved"

\* C28: when the query for a detected device fails in a pass (nvidia-smi
\* rejects, or the device's gpu_busy_percent cannot be read), the pass returns
\* no entry for it and appends no point to its streams.
Sampled == last.call = "fetchGpuStats"
QueryFailed(g, inp) ==
  \/ g.vendor = "nvidia" /\ inp.nvidia = NULL
  \/ g.vendor \in {"amd", "intel"} /\ inp.sysfs[g.index].busy = NULL
C28_FailedQueryOmitsDevice ==
  Sampled =>
    /\ \A k \in DOMAIN hardware.gpus :
         QueryFailed(hardware.gpus[k], last.inp) =>
           LET i == hardware.gpus[k].index
           IN i \in DOMAIN gpuHistories => (i \in DOMAIN pre.gpu /\ gpuHistories[i] = pre.gpu[i])
    /\ (\A k \in DOMAIN hardware.gpus : QueryFailed(hardware.gpus[k], last.inp)) => gpuStats = <<>>

\* C29: every entry a pass returns has a temperature and a powerDraw, each a
\* number: a reading, or -1 where none is available; never absent, never NaN.
IsNumber(x) == x # NaN /\ DOMAIN x = {"num", "den"}
C29_TemperatureAndPowerPresent ==
  \A k \in DOMAIN gpuStats :
    /\ {"temperature", "powerDraw"} \subseteq DOMAIN gpuStats[k]
    /\ IsNumber(gpuStats[k].temperature)
    /\ IsNumber(gpuStats[k].powerDraw)
\* Two nvidia devices: the first reports a temperature and no power draw,
\* the second a power draw and no temperature.
C29_Witness ==
  /\ Sampled /\ Len(gpuStats) = 2
  /\ gpuStats[1].temperature = Rat(60, 1) /\ gpuStats[1].powerDraw = Sentinel
  /\ gpuStats[2].temperature = Sentinel /\ gpuStats[2].powerDraw = Rat(75, 1)

\* ------------------------------------------------------------- the session
\* Refresh calls explored from mount, detection included.
MaxSessionCalls == 3

\* The reads of the calls of a refresh in a session without failures.
SessionSysInputs(t) == {SysInput(DefaultStat, DefaultMem, DefaultDisk, DefaultNet, t + Tick)}
SessionProcInputs(t) == {ProcInput(Pids, TopIo, t + Tick)}
SessionGpuInputs ==
  {SampleInput([v |-> <<SampleRow(0, 10, [num |-> 60], NotAvailable, 7)>>],
               CardSample([v |-> 30], [v |-> 4], [v |-> 1], [num |-> 45000]))}
SessionDetectInputs ==
  {inp \in DetectInputs :
     /\ inp.nvidia \in {NULL, [v |-> <<DetectRow(0, 2)>>]}
     /\ inp.cards = [v |-> <<0, 1>>] /\ inp.files[0].busy}

HardwareEffectEveryRender == mounted
\* useEffect(() => { fetchHardwareInfo().then(setHardware); }, []): the effect
\* runs after the first render only.
HardwareEffectPending == mounted /\ ~hardware.loaded

\* fetchHardwareInfo resolves and setHardware runs: refresh is re-created and
\* the refresh effect runs again, as in HardwareArrives.
SetHardware ==
  /\ StartsWithin(MaxSessionCalls) /\ HardwareEffectPending
  /\ \E inp \in SessionDetectInputs : fetchHardwareInfo(inp)
  /\ calls' = Append(calls, NewCall(hardware'.gpus))
  /\ intervals' = Effect(Cleanup(intervals), autoRefresh)
  /\ UNCHANGED <<mounted, unmounted, autoRefresh, signalTimers, table, shown, error, caller>>

\* The component is unmounted: the cleanup of the refresh effect runs. A
\* pending post-signal timer and the calls in flight are not cancelled.
Unmount ==
  /\ mounted
  /\ mounted' = FALSE
  /\ unmounted' = TRUE
  /\ intervals' = Cleanup(intervals)
  /\ UNCHANGED <<engine, prevIoStats, stats, processes, passNo, procNo, gpu,
                 autoRefresh, hardware, calls, signalTimers, table, shown, error, caller, clock, ghost>>

SessionToggle == ToggleAutoRefreshWithin(MaxSessionCalls)
SessionTick == IntervalTickWithin(MaxSessionCalls)
SessionClick == ClickRefreshWithin(MaxSessionCalls)
SessionTimer == PostSignalTimerWithin(MaxSessionCalls)
\* The queries of the calls resolve in the order the calls were started: a
\* call resumes once the calls started before it are over.
Oldest(r) == \A q \in DOMAIN calls : q < r => calls[q].pc = "done"
SessionProcResume(r) == Oldest(r) /\ ProcResumeFrom(r, SessionProcInputs(clock))
SessionSysResume(r) == Oldest(r) /\ SysResumeFrom(r, SessionSysInputs(clock))
SessionGpuResume(r) == Oldest(r) /\ GpuResumeFrom(r, SessionGpuInputs)

NextSession ==
  \/ Mount
  \/ SetHardware
  \/ SessionToggle
  \/ SessionTick
  \/ SessionClick
  \/ SignalSent
  \/ SessionTimer
  \/ Unmount
  \/ \E r \in DOMAIN calls : SessionProcResume(r)
  \/ \E r \in DOMAIN calls : SessionSysResume(r)
  \/ \E r \in DOMAIN calls : SessionGpuResume(r)

SpecSession == Init /\ [][NextSession]_vars

\* C30: detection runs once per session: once fetchHardwareInfo has completed
\* no step runs it again, the detected list never changes, the list a started
\* call holds for fetchGpuStats never changes, and every refresh started by
\* the interval, the Auto refresh switch or the Refresh button passes the
\* detected list (a post-signal timer passes the list of the render that set it).
StartedCall == calls'[Len(calls')]
C31_OneIntervalAtMost ==
  /\ Cardinality(intervals.active) <= 1
  /\ (mounted /\ ~autoRefresh) => intervals.active = {}
  /\ unmounted => intervals.active = {}
  /\ (mounted /\ autoRefresh) => (intervals.ref # NULL /\ intervals.active = {intervals.ref.v})
\* The switch was turned off and on again, then the component was unmounted:
\* two timers were created, one at a time, and none is live.
C31_Witness ==
  /\ unmounted /\ autoRefresh /\ Len(calls) = 3
  /\ intervals.made = 2 /\ intervals.ref = [v |-> 2] /\ intervals.active = {}

\* -------------------------------------------------------- overlapping calls
\* The refresh calls of mount and of the Refresh button, their fetches
\* resolving in any order.
\* The reads of an overlapping call: failing, idle counters, grown counters.
OverlapSysInputs(t) ==
  UiSysInputs(t) \cup {SysInput(DefaultStat, DefaultMem, TopDisk, DefaultNet, t + Tick)}

OverlapSysResume(r) == SysResumeFrom(r, OverlapSysInputs(clock))

NextOverlap ==
  \/ Mount
  \/ ClickRefresh
  \/ \E r \in DOMAIN calls : ProcResume(r)
  \/ \E r \in DOMAIN calls : OverlapSysResume(r)

SpecOverlap == Init /\ [][NextOverlap]_vars

\* C32: the part of a pass that reads and writes engine state runs without a
\* suspension point, also when calls overlap at their await: a step that
\* changes engine state is one whole pass of one function, computed from the
\* stores as they were when the step began; and wherever the program is
\* suspended the stores and streams are those a whole number of passes left
\* (every global stream ends with the point of the last pass, the two streams
\* of a disk or an interface end with points of one pass).
LastPass(arr) == IF arr = <<>> THEN 0 ELSE arr[Len(arr)].pass
BetweenPasses ==
  /\ \A k \in HistoryKeys : LastPass(history[k]) = passNo
  /\ \A d \in DOMAIN perDiskHistories :
       LastPass(perDiskHistories[d].read) = LastPass(perDiskHistories[d].write)
  /\ \A i \in DOMAIN perIfaceHistories :
       LastPass(perIfaceHistories[i].sent) = LastPass(perIfaceHistories[i].recv)
WholePass ==
  /\ engine' # engine =>
       /\ passNo' = passNo + 1 /\ procNo' = procNo /\ prevIoStats' = prevIoStats
       /\ last'.call = "fetchSystemStats"
       /\ stats' = StatsOf(last'.inp)
       /\ pre'.disk = prevPerDiskStats /\ pre'.iface = prevPerIfaceStats
  /\ prevIoStats' # prevIoStats =>
       /\ procNo' = procNo + 1 /\ engine' = engine
       /\ last'.call = "fetchProcesses" /\ pre'.io = prevIoStats
C32_PassesDoNotInterleave == []BetweenPasses /\ [][WholePass]_vars
\* Two calls overlapped: the second call's fetchSystemStats ran first (pass 1),
\* then the first call's (pass 2), each between the two fetchProcesses.
C32_Witness ==
  /\ Len(calls) = 2 /\ calls[1].pc = "done" /\ calls[2].pc = "done"
  /\ calls[2].sysPass = 1 /\ calls[1].sysPass = 2
  /\ procNo = 2 /\ passNo = 2 /\ ~calls[1].sysInp.failed /\ ~calls[2].sysInp.failed

\* C33: when refresh calls overlap and complete out of order, what is shown
\* once all of them are over is what the call started last obtained: its
\* processes and its systemStats, set by it.
AllOver == calls # <<>> /\ \A r \in DOMAIN calls : calls[r].pc = "done"
C33_LatestStartedShown ==
  AllOver =>
    /\ shown.by = Len(calls)
    /\ shown.processes = calls[Len(calls)].processes
    /\ shown.systemStats = calls[Len(calls)].systemStats

\* C34: a fetchSystemStats pass whose read step fails leaves every
\* previous-snapshot store and every per-entity and per-core stream as it
\* was; only the six global streams change, each by one point of value 0.
FailedPass == passNo' = passNo + 1 /\ last'.call = "fetchSystemStats" /\ last'.inp.failed
C34_FailedPassFrame ==
  [][FailedPass =>
       /\ UNCHANGED <<prevCpuTimes, prevPerCoreTimes, prevDiskStats, prevPerDiskStats,
                      prevNetStats, prevPerIfaceStats>>
       /\ UNCHANGED <<perDiskHistories, perIfaceHistories, perCoreHistories>>
       /\ \A k \in HistoryKeys :
            history'[k] = Append(history[k], [value |-> Zero, pass |-> passNo'])]_vars
\* A pass failed after two passes that had filled the stores and the per-disk
\* streams: they hold what those passes left, and the cpu stream ends with the point of value 0.
C34_Witness ==
  /\ last.call = "fetchSystemStats" /\ last.inp.failed /\ passNo = 3
  /\ prevCpuTimes # NULL /\ prevDiskStats # NULL /\ prevPerDiskStats # EmptyMap
  /\ perDiskHistories # EmptyMap
  /\ Len(history.cpu) = 3 /\ history.cpu[3].value = Zero
  /\ Len(history.memory) = 3 /\ history.memory[2].value # Zero

\* C35: when the ps command fails, fetchProcesses returns an empty list and
\* leaves prevIoStats as it was (no entry added, updated or pruned); a pass
\* that succeeds computes its rates against the entries it finds there.
ProcessesListed == procNo' = procNo + 1 /\ last'.call = "fetchProcesses"
C35_FailedListingFrame ==
  [][ProcessesListed =>
       IF last'.inp.failed
       THEN processes' = EmptyMap /\ prevIoStats' = prevIoStats
       ELSE \A pid \in last'.inp.ps \cap DOMAIN last'.inp.io \cap DOMAIN prevIoStats :
              LET dt == last'.inp.now - prevIoStats[pid].timestamp
                  grown == last'.inp.io[pid].readBytes - prevIoStats[pid].read
              IN dt > 0 =>
                   processes'[pid].diskRead =
                     Rat((IF grown > 0 THEN grown ELSE 0) * 1000, 1024 * dt)]_vars
\* The ps command failed in the second pass: the list is empty and the
\* baselines of the first pass are all still in the store.
C35_Witness ==
  /\ last.call = "fetchProcesses" /\ last.inp.failed /\ procNo = 2 /\ passNo = 0
  /\ processes = EmptyMap
  /\ DOMAIN prevIoStats = Pids /\ prevIoStats = pre.io

\* C36: when two consecutive passes read the same set of disks (interfaces),
\* all of them tracked since the first of the two, no counter went down and
\* time has passed, the aggregate rate of the second pass is the sum of the
\* per-entity rates of that pass, for read and write, sent and received.
SameSetTwice(family, cur) ==
  /\ passNo >= 2 /\ Len(reports) = passNo
  /\ reports[passNo - 1].ok /\ reports[passNo - 1][family] = DOMAIN cur
SumsUp(rates, field, total) ==
  total = SumRates(rates, field, DOMAIN rates)
C37_StreamsInStep ==
  /\ \A k \in HistoryKeys : Len(history[k]) = Len(history.cpu)
  /\ \A d \in DOMAIN perDiskHistories :
       Len(perDiskHistories[d].read) = Len(perDiskHistories[d].write)
  /\ \A i \in DOMAIN perIfaceHistories :
       Len(perIfaceHistories[i].sent) = Len(perIfaceHistories[i].recv)
  /\ \A g \in DOMAIN gpuHistories :
       Len(gpuHistories[g].usage) = Len(gpuHistories[g].memory)
\* The global streams are full and have evicted; a disk, an interface and a
\* GPU have streams, the disk's shorter than the global ones.
C37_Witness ==
  /\ passNo > MAX_HISTORY_POINTS /\ Len(history.cpu) = MAX_HISTORY_POINTS
  /\ history.cpu[1].pass > 1
  /\ \E d \in DOMAIN perDiskHistories :
       /\ Len(perDiskHistories[d].read) > 0
       /\ Len(perDiskHistories[d].read) < Len(history.diskRead)
  /\ \E i \in DOMAIN perIfaceHistories : Len(perIfaceHistories[i].sent) > 0
  /\ \E g \in DOMAIN gpuHistories : Len(gpuHistories[g].usage) > 0

\* C38: per-entity rates and per-entity streams stay in step: a pass appends
\* a point to the streams of a disk (an interface) exactly if its perDiskStats
\* (perIfaceStats) has an entry for that key, the point holding the entry's
\* rates; and every key of a per-entity history map is a key of the
\* previous-snapshot store of its family.
Last(arr) == arr[Len(arr)]
Grew(old, new, value, n) ==
  Len(new) = Len(old) + 1 /\ Last(new) = [value |-> value, pass |-> n]
SystemPassed == passNo' = passNo + 1 /\ last'.call = "fetchSystemStats"
RatesAndStreamsInStep ==
  SystemPassed =>
    /\ \A d \in DOMAIN perDiskHistories' \cup DOMAIN stats'.perDiskStats :
         LET old == IF d \in DOMAIN perDiskHistories THEN perDiskHistories[d]
                    ELSE [read |-> <<>>, write |-> <<>>]
         IN IF d \in DOMAIN stats'.perDiskStats
            THEN /\ d \in DOMAIN perDiskHistories'
                 /\ Grew(old.read, perDiskHistories'[d].read,
                         stats'.perDiskStats[d].readRate, passNo')
                 /\ Grew(old.write, perDiskHistories'[d].write,
                         stats'.perDiskStats[d].writeRate, passNo')
            ELSE d \in DOMAIN perDiskHistories /\ perDiskHistories'[d] = perDiskHistories[d]
    /\ \A i \in DOMAIN perIfaceHistories' \cup DOMAIN stats'.perIfaceStats :
         LET old == IF i \in DOMAIN perIfaceHistories THEN perIfaceHistories[i]
                    ELSE [sent |-> <<>>, recv |-> <<>>]
         IN IF i \in DOMAIN stats'.perIfaceStats
            THEN /\ i \in DOMAIN perIfaceHistories'
                 /\ Grew(old.sent, perIfaceHistories'[i].sent,
                         stats'.perIfaceStats[i].sentRate, passNo')
                 /\ Grew(old.recv, perIfaceHistories'[i].recv,
                         stats'.perIfaceStats[i].recvRate, passNo')
            ELSE i \in DOMAIN perIfaceHistories /\ perIfaceHistories'[i] = perIfaceHistories[i]
HistoryKeysTracked ==
  /\ DOMAIN perDiskHistories \subseteq DOMAIN prevPerDiskStats
  /\ DOMAIN perIfaceHistories \subseteq DOMAIN prevPerIfaceStats
C38_RatesAndStreamsInStep == []HistoryKeysTracked /\ [][RatesAndStreamsInStep]_vars
\* A pass read two disks, one tracked and one seen for the first time: the
\* tracked one has an entry and a new point, the other neither.
C38_Witness ==
  /\ last.call = "fetchSystemStats" /\ ~last.inp.failed /\ last.inp.disk # NULL
  /\ DOMAIN last.inp.disk = {"sda", "sdb"}
  /\ DOMAIN stats.perDiskStats = {"sda"} /\ DOMAIN perDiskHistories = {"sda"}
  /\ Last(perDiskHistories["sda"].read) =
       [value |-> stats.perDiskStats["sda"].readRate, pass |-> passNo]
  /\ DOMAIN prevPerDiskStats = {"sda", "sdb"}

\* ------------------------------------------------ SystemOverview: GPU card
\* gpuIdx = Math.min(selectedGpu, gpuStats.length - 1); gpu = gpuStats[gpuIdx];
\* gpuDev = hardware.gpus[gpuIdx]; gpuHist = gpuHistory[gpuIdx] || { usage: [],
\* memory: [] }, positions counted from 0 and gpuHistory being what
\* getGpuHistory returned after the pass.
GpuCardShown == Len(hardware.gpus) > 0 /\ Len(gpuStats) > 0
GpuCard(selectedGpu) ==
  LET gpuIdx == Min(selectedGpu, Len(gpuStats) - 1)
      gpuHistory == getGpuHistory
  IN [gpuIdx |-> gpuIdx,
      gpu |-> gpuStats[gpuIdx + 1],
      gpuDev |-> IF gpuIdx + 1 \in DOMAIN hardware.gpus THEN hardware.gpus[gpuIdx + 1] ELSE NULL,
      gpuHist |-> IF gpuIdx \in DOMAIN gpuHistory
                  THEN [usage |-> Contents(gpuHistory[gpuIdx].usage),
                        memory |-> Contents(gpuHistory[gpuIdx].memory)]
                  ELSE [usage |-> <<>>, memory |-> <<>>]]

\* C39: for every detected GPU, at position i of the detected list, the stats
\* and the streams on display are those of that device: the entry of the
\* pass at position i was read from gpus[i], and the history the card looks
\* up for position i is the stream the pass appended to for gpus[i].
C39_DisplayMatchesDevice ==
  (Sampled /\ GpuCardShown) =>
    \A sel \in DOMAIN hardware.gpus :
      (sel \in DOMAIN gpuStats) =>
        LET card == GpuCard(sel - 1)
            dev == hardware.gpus[sel]
        IN /\ card.gpuDev = dev
           /\ GpuSamples(hardware.gpus, last.inp)[sel].idx = dev.index
           /\ dev.index \in DOMAIN gpuHistories
           /\ card.gpuHist = [usage |-> gpuHistories[dev.index].usage,
                              memory |-> gpuHistories[dev.index].memory]

\* ------------------------------------------------- ProcessTable: signalling
MaxKills == 2
\* The pids of the rows on display.
RowPids == {1, 2}
\* What cockpit.spawn(['kill', ...]) settles to: it resolves, or it rejects
\* with an error whose message may be empty.
KillSpawns ==
  {[rejected |-> FALSE],
   [rejected |-> TRUE, message |-> "kill: (1) - Operation not permitted"],
   [rejected |-> TRUE, message |-> ""]}
\* String(err) of such an error.
StringOf(err) == "ProcessError"
FailedToSendSignal == "Failed to send signal"

killProcessOutcomeUncaught(sp) == Settles(sp.rejected, FALSE)
\* The spawn is awaited inside the try; the catch returns.
killProcessOutcome(sp) == Settles(sp.rejected, TRUE)
\* { success: true }, or { success: false, error: err.message || String(err) }.
killProcess(sp) ==
  IF ~sp.rejected THEN [success |-> TRUE]
  ELSE [success |-> FALSE, error |-> IF sp.message # "" THEN sp.message ELSE StringOf(sp)]

\* A row is clicked: setSelectedPid(proc.pid === selectedPid ? null : proc.pid).
SelectRow(pid) ==
  /\ mounted /\ ~table.killModalOpen
  /\ table' = [table EXCEPT !.selectedPid = IF table.selectedPid = [v |-> pid] THEN NULL
                                           ELSE [v |-> pid]]
  /\ UNCHANGED <<engine, prevIoStats, stats, processes, passNo, procNo, gpu, mounted,
                 unmounted, autoRefresh, intervals, hardware, calls, signalTimers, shown,
                 error, caller, clock, ghost>>
\* The kill button of a row: setSelectedPid(proc.pid); setKillModalOpen(true).
OpenKillModal(pid) ==
  /\ mounted /\ ~table.killModalOpen
  /\ table' = [table EXCEPT !.selectedPid = [v |-> pid], !.killModalOpen = TRUE]
  /\ UNCHANGED <<engine, prevIoStats, stats, processes, passNo, procNo, gpu, mounted,
                 unmounted, autoRefresh, intervals, hardware, calls, signalTimers, shown,
                 error, caller, clock, ghost>>
\* Cancel, or the close button of the dialog: setKillModalOpen(false).
CloseKillModal ==
  /\ mounted /\ table.killModalOpen
  /\ table' = [table EXCEPT !.killModalOpen = FALSE]
  /\ UNCHANGED <<engine, prevIoStats, stats, processes, passNo, procNo, gpu, mounted,
                 unmounted, autoRefresh, intervals, hardware, calls, signalTimers, shown,
                 error, caller, clock, ghost>>
\* Send Signal is clicked: handleKill up to its await. onRefresh is the
\* refresh of the render the handler belongs to.
handleKill ==
  /\ mounted /\ table.killModalOpen
  /\ Len(table.kills) + Len(signalTimers) < MaxKills
  /\ table' = IF table.selectedPid = NULL THEN table
              ELSE [table EXCEPT !.actionError = NULL,
                                 !.kills = Append(@, [pid |-> table.selectedPid.v,
                                                      onRefresh |-> hardware.gpus])]
  /\ UNCHANGED <<engine, prevIoStats, stats, processes, passNo, procNo, gpu, mounted,
                 unmounted, autoRefresh, intervals, hardware, calls, signalTimers, shown,
                 error, caller, clock, ghost>>
\* The killProcess call of a handleKill settles: the handler runs from its
\* await to its end; a rejection would end it at the await.
handleKillResume(sp) ==
  /\ table.kills # <<>>
  /\ LET kill == Head(table.kills)
         outcome == killProcessOutcome(sp)
         result == killProcess(sp)
         rest == [table EXCEPT !.kills = Tail(@)]
     IN /\ table' =
             IF outcome = "rejected" THEN rest
             ELSE IF result.success
             THEN [rest EXCEPT !.killModalOpen = FALSE, !.selectedPid = NULL]
             ELSE [rest EXCEPT !.actionError =
                     [text |-> IF result.error # "" THEN result.error ELSE FailedToSendSignal]]
        /\ signalTimers' = IF outcome = "resolved" /\ result.success
                           THEN Append(signalTimers, kill.onRefresh) ELSE signalTimers
        /\ last' = [call |-> "killProcess", inp |-> sp, outcome |-> outcome,
                    result |-> IF outcome = "resolved" THEN result ELSE NULL]
  /\ UNCHANGED <<engine, prevIoStats, stats, processes, passNo, procNo, gpu, mounted,
                 unmounted, autoRefresh, intervals, hardware, calls, shown,
                 error, caller, clock, pre, reports, appended, obtained>>

NextKill ==
  \/ Mount
  \/ \E pid \in RowPids : SelectRow(pid)
  \/ \E pid \in RowPids : OpenKillModal(pid)
  \/ CloseKillModal
  \/ handleKill
  \/ \E sp \in KillSpawns : handleKillResume(sp)
  \/ PostSignalTimer
SpecKill == Init /\ [][NextKill]_vars

\* C40: killProcess never throws: it resolves with success true when the
\* signal command succeeds and with success false and an error message when
\* it fails. In handleKill a failed signal leaves the confirmation dialog and
\* the selected pid as they are and schedules no refresh; a successful one
\* closes the dialog, clears the selection and schedules exactly one refresh.
KillSettled == last'.call = "killProcess" /\ Len(table'.kills) < Len(table.kills)
KillSettledRight ==
  KillSettled =>
    /\ last'.outcome = "resolved"
    /\ last'.result.success = ~last'.inp.rejected
    /\ IF last'.result.success
       THEN /\ ~table'.killModalOpen /\ table'.selectedPid = NULL
            /\ signalTimers' = Append(signalTimers, Head(table.kills).onRefresh)
       ELSE /\ "error" \in DOMAIN last'.result /\ last'.result.error # ""
            /\ table'.killModalOpen = table.killModalOpen
            /\ table'.selectedPid = table.selectedPid
            /\ signalTimers' = signalTimers
            /\ table'.actionError # NULL
C40_KillOutcome == [][KillSettledRight]_vars
\* A signal failed with the dialog open on pid 2, and before it a signal
\* had succeeded and its refresh had been started.
C40_Witness ==
  /\ last.call = "killProcess" /\ last.inp.rejected /\ ~last.result.success
  /\ table.killModalOpen /\ table.selectedPid = [v |-> 2] /\ table.actionError # NULL
  /\ signalTimers = <<>> /\ Len(calls) = 2
============================================================================
